---- MODULE Spec2Model ----
(***************************************************************************)
(* Tilt-edge elementary cellular automaton (kotddl/ca-arcade).             *)
(*                                                                         *)
(* The repository holds three React components that share one engine:     *)
(*   "cover"    src/src/TiltEdgeECA_FillScreen.jsx, lines 1-646            *)
(*              (world presets, cover + anchor blit, tilt speed)           *)
(*   "fit"      src/src/TiltEdgeECA_FillScreen.jsx, lines 648-1036         *)
(*              (fixed world, fit / stretch blit, constant speed)          *)
(*   "viewport" src/src/TiltEdgeECA_FillScreenv1.jsx                       *)
(*              (world derived from the viewport and the cell size)        *)
(*                                                                         *)
(* Rows are sequences of 0/1 cells; JavaScript index i is TLA+ index i+1.  *)
(* gridRef.current.head stays 0-based, as in the source.                   *)
(***************************************************************************)
EXTENDS Integers, Sequences, FiniteSets, TLC

VARIABLES
    comp,        \* which component this run is an instance of
    phase,       \* "init" before the mount effects ran, "mounted" after
    rule,        \* useState rule
    lut,         \* useMemo(() => makeRuleLUT(rule), [rule])
    seedMode,    \* useState seedMode ("single" only in the fit component)
    manualEdge,  \* useState manualEdge ("none" models null)
    activeEdge,  \* useState activeEdge, as committed and closed over by tick
    pendingEdge, \* queued setActiveEdge value not yet rendered, or "none"
    motionOn,    \* useState motionOn
    running,     \* useState running
    worldPreset, \* useState worldPreset (cover component)
    cellSize,    \* useState cellSize (viewport component)
    viewport,    \* <<window.innerWidth, window.innerHeight>>
    canvas,      \* <<canvas.width, canvas.height>>
    tilt,        \* tiltRef.current
    dims,        \* dimsRef.current (viewport component), <<W, H>>
    grid,        \* gridRef.current: [rows, head, current]
    acc,         \* stepAccumulator of the live frame loop, in 1/AccUnit steps
    trace,       \* history variable: every row since the last reset, seed first
    raf,         \* the animation-frame callbacks requested and not yet run or cancelled
    rafRef,      \* rafRef.current: the handle of the last request (0 models null)
    probe        \* argument/result cell of the pure-function specifications

vars == <<comp, phase, rule, lut, seedMode, manualEdge, activeEdge, pendingEdge,
          motionOn, running, worldPreset, cellSize, viewport, canvas, tilt, dims,
          grid, acc, trace, raf, rafRef, probe>>

----------------------------------------------------------------------------
(* Bounds of the model (not program constants).                            *)

\* World sizes are scaled down: the cover presets are 520x360, 900x600 and
\* 1400x900 cells and the fit world is 400x260; the model keeps their order.
ScaleW == 3
ScaleH == 2
\* A frame loop is followed for at most H + StepsBeyond steps after a reset.
StepsBeyond == 2
\* The accumulator is kept in units of 1/AccUnit of a step.
AccUnit == 2
\* The cell-size buttons are followed up to this cell size.
MaxCellSize == 2
\* The viewport component's accumulator is followed down to -MaxDebt steps.
MaxDebt == 1

----------------------------------------------------------------------------
(* Integer helpers for the JavaScript operators the source uses.           *)

Abs(x) == IF x < 0 THEN -x ELSE x
Min(a, b) == IF a < b THEN a ELSE b
Max(a, b) == IF a > b THEN a ELSE b

RECURSIVE Pow2(_)
Pow2(n) == IF n = 0 THEN 1 ELSE 2 * Pow2(n - 1)

\* x << n and x >> n on non-negative integers.
Shl(x, n) == x * Pow2(n)
Shr(x, n) == x \div Pow2(n)

\* x & y and x | y on non-negative integers, bit by bit.
RECURSIVE BitAnd(_, _)
BitAnd(x, y) ==
    IF x = 0 \/ y = 0 THEN 0
    ELSE (IF x % 2 = 1 /\ y % 2 = 1 THEN 1 ELSE 0) + 2 * BitAnd(x \div 2, y \div 2)

RECURSIVE BitOr(_, _)
BitOr(x, y) ==
    IF x = 0 THEN y
    ELSE IF y = 0 THEN x
    ELSE (IF x % 2 = 1 \/ y % 2 = 1 THEN 1 ELSE 0) + 2 * BitOr(x \div 2, y \div 2)

\* clamp(x, a, b) = Math.max(a, Math.min(b, x))
clamp(x, a, b) == Max(a, Min(b, x))

\* new Uint8Array(n)
ZeroRow(n) == [i \in 1..n |-> 0]

----------------------------------------------------------------------------
(* The engine's pure functions.                                            *)

\* Variant of makeRuleLUT that reads the rule's bits from the high end.
makeRuleLUTReversed(r) == [j \in 1..8 |-> BitAnd(Shr(r, 8 - j), 1)]

\* makeRuleLUT(rule): entry i (0-based) is (rule >> i) & 1.
makeRuleLUT(r) == [j \in 1..8 |-> BitAnd(Shr(r, j - 1), 1)]

\* Variant of stepCell with a wrapping boundary.
stepCellWrap(prev, l, i) ==
    LET n     == Len(prev)
        left  == IF i = 0 THEN prev[n] ELSE prev[i]
        mid   == prev[i + 1]
        right == IF i = n - 1 THEN prev[1] ELSE prev[i + 2]
        idx   == BitOr(BitOr(Shl(left, 2), Shl(mid, 1)), right)
    IN  l[idx + 1]

\* One cell of stepECA's loop body, for the 0-based index i.
stepCell(prev, l, i) ==
    LET n     == Len(prev)
        left  == IF i = 0 THEN 0 ELSE prev[i]
        mid   == prev[i + 1]
        right == IF i = n - 1 THEN 0 ELSE prev[i + 2]
        idx   == BitOr(BitOr(Shl(left, 2), Shl(mid, 1)), right)
    IN  l[idx + 1]

\* stepECA(prev, lut): a fresh row of the same length.
stepECA(prev, l) == [k \in 1..Len(prev) |-> stepCell(prev, l, k - 1)]

----------------------------------------------------------------------------
(* Edges, tilt and speed.                                                  *)

Edges == {"top", "bottom", "left", "right"}
Components == {"cover", "fit", "viewport"}

\* Default deadzone of dominantEdgeFromTilt, in degrees.
Deadzone == 6
\* Tilt magnitude at which speed01 saturates, in degrees.
SpeedCap == 45
\* Acceleration-to-degrees factor and the clamp of the devicemotion proxy.
MotionFactor == 9
MotionLimit == 90

\* Variant of dominantEdgeFromTilt in which a tie between the axes goes to beta.
dominantEdgeTieToBeta(c, beta, gamma, deadzone) ==
    LET ab == Abs(beta)
        ag == Abs(gamma)
    IN  IF ab < deadzone /\ ag < deadzone THEN "none"
        ELSE IF ag > ab
             THEN IF c = "cover"
                  THEN (IF gamma >= 0 THEN "left" ELSE "right")
                  ELSE (IF gamma >= 0 THEN "right" ELSE "left")
             ELSE (IF beta >= 0 THEN "top" ELSE "bottom")

\* dominantEdgeFromTilt(beta, gamma, deadzone) of component c; "none" is null.
\* The cover component swaps the left/right labels ("Honor Pad 9 gamma sign fix").
dominantEdgeFromTilt(c, beta, gamma, deadzone) ==
    LET ab == Abs(beta)
        ag == Abs(gamma)
    IN  IF ab < deadzone /\ ag < deadzone THEN "none"
        ELSE IF ag >= ab
             THEN IF c = "cover"
                  THEN (IF gamma >= 0 THEN "left" ELSE "right")
                  ELSE (IF gamma >= 0 THEN "right" ELSE "left")
             ELSE (IF beta >= 0 THEN "top" ELSE "bottom")

\* computeSpeed01 / speed01FromTilt, as the numerator over SpeedCap.
speed01FromTilt(beta, gamma) == clamp(Max(Abs(beta), Abs(gamma)), 0, SpeedCap)

\* Variant of tiltSample whose speed01 is taken from gamma alone.
tiltSampleSpeedFromGamma(c, beta, gamma) ==
    IF c = "fit"
    THEN [beta |-> beta, gamma |-> gamma, edge |-> "none"]
    ELSE [beta |-> beta, gamma |-> gamma,
          edge |-> dominantEdgeFromTilt(c, beta, gamma, Deadzone),
          speed01 |-> speed01FromTilt(0, gamma)]

\* The value the sensor handlers store in tiltRef.current.
tiltSample(c, beta, gamma) ==
    IF c = "fit"
    THEN [beta |-> beta, gamma |-> gamma,
          edge |-> dominantEdgeFromTilt(c, beta, gamma, Deadzone)]
    ELSE [beta |-> beta, gamma |-> gamma,
          edge |-> dominantEdgeFromTilt(c, beta, gamma, Deadzone),
          speed01 |-> speed01FromTilt(beta, gamma)]

\* useRef({ beta: 0, gamma: 0, edge: null, ... })
initialTilt(c) ==
    IF c = "fit"
    THEN [beta |-> 0, gamma |-> 0, edge |-> "none"]
    ELSE [beta |-> 0, gamma |-> 0, edge |-> "none", speed01 |-> 0]

\* a ?? b on edges, with "none" for null.
Coalesce(a, b) == IF a # "none" THEN a ELSE b

\* Variant of resolveEdge that reads the sensor edge whether or not motion is on.
resolveEdgeUngated(manual, motion, tiltEdge, active) ==
    Coalesce(manual, Coalesce(tiltEdge, active))

\* Variant of resolveEdge in which the sensor edge outranks the manual override.
resolveEdgeTiltFirst(manual, motion, tiltEdge, active) ==
    Coalesce(IF motion THEN tiltEdge ELSE "none", Coalesce(manual, active))

\* manualEdge ?? (motionOn ? tiltRef.current.edge : null) ?? activeEdge
resolveEdge(manual, motion, tiltEdge, active) ==
    Coalesce(manual, Coalesce(IF motion THEN tiltEdge ELSE "none", active))

----------------------------------------------------------------------------
(* World dimensions.                                                       *)

\* Smallest grid side computeDims returns.
MinGrid == 8

\* The cover component's useMemo on worldPreset (scaled, see ScaleW).
presetDims(p) ==
    IF p = "low" THEN <<ScaleW, ScaleH>>
    ELSE IF p = "high" THEN <<ScaleW + 2, ScaleH + 2>>
    ELSE <<ScaleW + 1, ScaleH + 1>>

\* const W = 400; const H = 260 of the fit component (scaled).
fitDims == <<ScaleW + 1, ScaleH + 1>>

\* Variant of computeDims that ignores the edge: W is always the grid's width.
computeDimsUnswapped(edge, cs, vp) ==
    <<Max(MinGrid, Max(1, vp[1]) \div cs), Max(MinGrid, Max(1, vp[2]) \div cs)>>

\* computeDims(edge, cs) of the viewport component, for the viewport vp.
computeDims(edge, cs, vp) ==
    LET vw == Max(1, vp[1])
        vh == Max(1, vp[2])
        timeHorizontal == edge \in {"left", "right"}
        gridW == Max(MinGrid, vw \div cs)
        gridH == Max(MinGrid, vh \div cs)
    IN  IF timeHorizontal THEN <<gridH, gridW>> ELSE <<gridW, gridH>>

----------------------------------------------------------------------------
(* Seeds and reset.                                                        *)

\* Outcomes of the Math.random() draws of one seed row that the model follows:
\* no cell drawn, the first cell only, or every cell.
Draws == {"nothing", "first", "all"}
drawn(d, W) == IF d = "all" THEN 1..W ELSE IF d = "first" THEN {1} ELSE {}

\* Variant of buildInitRow whose centre cell is one place to the left.
buildInitRowOffCentre(W, mode, d) ==
    LET mid == Max(1, W \div 2)
    IN  IF mode = "single" THEN [i \in 1..W |-> IF i = mid THEN 1 ELSE 0]
        ELSE IF mode = "centerSprinkle"
             THEN [i \in 1..W |-> IF i = mid \/ i \in drawn(d, W) THEN 1 ELSE 0]
             ELSE [i \in 1..W |-> IF i \in drawn(d, W) THEN 1 ELSE 0]

\* buildInitRow(W, mode, sprinkleP) and the seed part of resetSimulation; d is
\* the outcome of the random draws.
buildInitRow(W, mode, d) ==
    LET mid == (W \div 2) + 1
    IN  IF mode = "single" THEN [i \in 1..W |-> IF i = mid THEN 1 ELSE 0]
        ELSE IF mode = "centerSprinkle"
             THEN [i \in 1..W |-> IF i = mid \/ i \in drawn(d, W) THEN 1 ELSE 0]
             ELSE [i \in 1..W |-> IF i \in drawn(d, W) THEN 1 ELSE 0]

\* Variant of resetGrid that forgets rows[0].set(init).
resetGridNoSeedRow(W, H, init) ==
    [rows |-> [r \in 1..H |-> ZeroRow(W)], head |-> 0, current |-> init]

\* rows = H zero rows; rows[0].set(init); gridRef.current = {rows, head: 0, current: init}
resetGrid(W, H, init) ==
    [rows |-> [r \in 1..H |-> IF r = 1 THEN init ELSE ZeroRow(W)],
     head |-> 0,
     current |-> init]

----------------------------------------------------------------------------
(* The engine state the handlers read and write, as one record, and the    *)
(* React state a handler body closes over.                                 *)

\* Ceiling of the accumulator while paused.
PauseCeiling == 2

Engine ==
    [grid |-> grid, dims |-> dims, canvas |-> canvas, trace |-> trace, resets |-> 0]

Closure ==
    [rule |-> rule, lut |-> lut, seedMode |-> seedMode, manualEdge |-> manualEdge,
     activeEdge |-> activeEdge, motionOn |-> motionOn, running |-> running,
     worldPreset |-> worldPreset, cellSize |-> cellSize]

\* The W and H a handler of component c sees.
worldDims(c, cl, e) ==
    IF c = "cover" THEN presetDims(cl.worldPreset)
    ELSE IF c = "fit" THEN fitDims
    ELSE e.dims

\* Variant of resetSimulation that rebuilds the rows but carries head over.
resetSimulationKeepsHead(c, cl, e, edgeOverride, keepDims, tl, vp, d) ==
    IF c = "viewport"
    THEN LET edge == Coalesce(edgeOverride,
                         resolveEdge(cl.manualEdge, cl.motionOn, tl.edge, cl.activeEdge))
             used == Coalesce(edge, cl.activeEdge)
             WH   == IF keepDims THEN e.dims ELSE computeDims(used, cl.cellSize, vp)
             init == buildInitRow(WH[1], cl.seedMode, d)
             timeHorizontal == used \in {"left", "right"}
         IN  [grid   |-> [resetGrid(WH[1], WH[2], init) EXCEPT !.head = e.grid.head % WH[2]],
              dims   |-> WH,
              canvas |-> <<(IF timeHorizontal THEN WH[2] ELSE WH[1]) * cl.cellSize,
                           (IF timeHorizontal THEN WH[1] ELSE WH[2]) * cl.cellSize>>,
              trace  |-> <<init>>,
              resets |-> e.resets + 1]
    ELSE LET WH   == worldDims(c, cl, e)
             init == buildInitRow(WH[1], IF c = "fit" THEN "single" ELSE cl.seedMode, d)
         IN  [e EXCEPT !.grid = [resetGrid(WH[1], WH[2], init) EXCEPT
                                    !.head = e.grid.head % WH[2]],
                       !.trace = <<init>>,
                       !.resets = @ + 1]

\* resetSimulation. edgeOverride and keepDims are the viewport component's
\* options; tl is tiltRef.current, vp the window size, d the random draws.
resetSimulation(c, cl, e, edgeOverride, keepDims, tl, vp, d) ==
    IF c = "viewport"
    THEN LET edge == Coalesce(edgeOverride,
                         resolveEdge(cl.manualEdge, cl.motionOn, tl.edge, cl.activeEdge))
             used == Coalesce(edge, cl.activeEdge)
             WH   == IF keepDims THEN e.dims ELSE computeDims(used, cl.cellSize, vp)
             init == buildInitRow(WH[1], cl.seedMode, d)
             timeHorizontal == used \in {"left", "right"}
         IN  [grid   |-> resetGrid(WH[1], WH[2], init),
              dims   |-> WH,
              canvas |-> <<(IF timeHorizontal THEN WH[2] ELSE WH[1]) * cl.cellSize,
                           (IF timeHorizontal THEN WH[1] ELSE WH[2]) * cl.cellSize>>,
              trace  |-> <<init>>,
              resets |-> e.resets + 1]
    ELSE LET WH   == worldDims(c, cl, e)
             init == buildInitRow(WH[1], IF c = "fit" THEN "single" ELSE cl.seedMode, d)
         IN  [e EXCEPT !.grid = resetGrid(WH[1], WH[2], init),
                       !.trace = <<init>>,
                       !.resets = @ + 1]

\* Variant of stepOnce that also clears the slot after the new head.
stepOnceClearsNext(c, g, l, H) ==
    LET next == stepECA(g.current, l)
        n    == IF c = "viewport" THEN Len(g.rows) ELSE H
        head == (g.head + 1) % n
    IN  [rows |-> [g.rows EXCEPT ![head + 1] = next,
                                 ![((head + 1) % n) + 1] = ZeroRow(Len(next))],
         head |-> head, current |-> next]

\* Variant of stepOnce that writes the new row before it advances head.
stepOnceStaleWrite(c, g, l, H) ==
    LET next == stepECA(g.current, l)
        head == (g.head + 1) % (IF c = "viewport" THEN Len(g.rows) ELSE H)
    IN  [rows |-> [g.rows EXCEPT ![g.head + 1] = next], head |-> head, current |-> next]

\* Variant of stepOnce that never wraps back to slot 0.
stepOnceSkipZero(c, g, l, H) ==
    LET next == stepECA(g.current, l)
        n    == IF c = "viewport" THEN Len(g.rows) ELSE H
        head == IF g.head + 1 >= n THEN Min(1, n - 1) ELSE g.head + 1
    IN  [rows |-> [g.rows EXCEPT ![head + 1] = next], head |-> head, current |-> next]

\* The body of tick's stepping loop: one ECA step written into the ring.
stepOnce(c, g, l, H) ==
    LET next == stepECA(g.current, l)
        head == (g.head + 1) % (IF c = "viewport" THEN Len(g.rows) ELSE H)
    IN  [rows |-> [g.rows EXCEPT ![head + 1] = next], head |-> head, current |-> next]

RECURSIVE runSteps(_, _, _, _, _)
runSteps(c, e, l, H, n) ==
    IF n <= 0 THEN e
    ELSE LET g == stepOnce(c, e.grid, l, H)
         IN  runSteps(c, [e EXCEPT !.grid = g, !.trace = Append(@, g.current)], l, H, n - 1)

\* Variant of stepsDue whose paused branch does not clamp the accumulator.
stepsDueNoClamp(c, isRunning, a, due) ==
    IF c = "viewport"
    THEN IF isRunning
         THEN LET steps == Max(1, (a + due) \div AccUnit)
              IN  <<steps, a + due - steps * AccUnit>>
         ELSE <<0, a>>
    ELSE IF isRunning
         THEN <<(a + due) \div AccUnit, (a + due) % AccUnit>>
         ELSE <<0, a + due>>

\* The accumulator arithmetic of one frame: <<steps applied, accumulator left>>.
\* a and due are in 1/AccUnit steps.
stepsDue(c, isRunning, a, due) ==
    IF c = "viewport"
    THEN IF isRunning
         THEN LET steps == Max(1, (a + due) \div AccUnit)
              IN  <<steps, a + due - steps * AccUnit>>
         ELSE <<0, a>>
    ELSE IF isRunning
         THEN <<(a + due) \div AccUnit, (a + due) % AccUnit>>
         ELSE <<0, Min(a + due, PauseCeiling * AccUnit)>>

\* Variant of tickEdge that never sees an edge change.
tickEdgeNoChange(cl, tl) ==
    LET desired == resolveEdge(cl.manualEdge, cl.motionOn, tl.edge, cl.activeEdge)
    IN  [desired |-> desired, changed |-> FALSE, edge |-> Coalesce(desired, cl.activeEdge)]

\* The edge part of tick: desiredEdge, whether it differs from activeEdge, and
\* the edge the frame draws with.
tickEdge(cl, tl) ==
    LET desired == resolveEdge(cl.manualEdge, cl.motionOn, tl.edge, cl.activeEdge)
    IN  [desired |-> desired,
         changed |-> desired # "none" /\ desired # cl.activeEdge,
         edge    |-> Coalesce(desired, cl.activeEdge)]

\* Variant of frame that steps without comparing dimsRef with computeDims.
frameNoDimsCheck(c, cl, e0, pend0, a0, tl, vp, due, d) ==
    IF c = "cover" /\ (e0.canvas[1] < 2 \/ e0.canvas[2] < 2)
    THEN [e |-> e0, pend |-> pend0, acc |-> a0,
          info |-> [skipped |-> "surface", edge |-> "none", setEdge |-> FALSE, steps |-> 0]]
    ELSE LET te == tickEdge(cl, tl)
             pend1 == IF te.changed THEN te.desired ELSE pend0
             e1 == IF te.changed
                   THEN resetSimulation(c, cl, e0,
                            IF c = "viewport" THEN te.desired ELSE "none", FALSE, tl, vp, d)
                   ELSE e0
         IN  IF c = "cover" /\ Len(e1.grid.current) # worldDims(c, cl, e1)[1]
             THEN [e |-> e1, pend |-> pend1, acc |-> a0,
                   info |-> [skipped |-> "buffers", edge |-> te.edge,
                             setEdge |-> te.changed, steps |-> 0]]
             ELSE LET e2 == e1
                      sd == stepsDue(c, cl.running, a0, due)
                      e3 == runSteps(c, e2, cl.lut, worldDims(c, cl, e2)[2], sd[1])
                  IN  [e |-> e3, pend |-> pend1, acc |-> sd[2],
                       info |-> [skipped |-> "no", edge |-> te.edge,
                                 setEdge |-> te.changed, steps |-> sd[1]]]

\* Variant of frame that applies the steps due before it re-evaluates the edge.
frameStepsFirst(c, cl, e0, pend0, a0, tl, vp, due, d) ==
    IF c = "cover" /\ (e0.canvas[1] < 2 \/ e0.canvas[2] < 2)
    THEN [e |-> e0, pend |-> pend0, acc |-> a0,
          info |-> [skipped |-> "surface", edge |-> "none", setEdge |-> FALSE, steps |-> 0]]
    ELSE LET te == tickEdge(cl, tl)
             pend1 == IF te.changed THEN te.desired ELSE pend0
             sd == stepsDue(c, cl.running, a0, due)
             e1 == runSteps(c, e0, cl.lut, worldDims(c, cl, e0)[2], sd[1])
             e2 == IF te.changed
                   THEN resetSimulation(c, cl, e1,
                            IF c = "viewport" THEN te.desired ELSE "none", FALSE, tl, vp, d)
                   ELSE e1
             e3 == IF c = "viewport" /\ e2.dims # computeDims(te.edge, cl.cellSize, vp)
                   THEN resetSimulation(c, cl, e2, te.edge, FALSE, tl, vp, d)
                   ELSE e2
         IN  [e |-> e3, pend |-> pend1, acc |-> sd[2],
              info |-> [skipped |-> "no", edge |-> te.edge,
                        setEdge |-> te.changed, steps |-> sd[1]]]

\* Variant of frame that does not look at the size of the canvas.
frameNoSurfaceGuard(c, cl, e0, pend0, a0, tl, vp, due, d) ==
    LET te == tickEdge(cl, tl)
        pend1 == IF te.changed THEN te.desired ELSE pend0
        e1 == IF te.changed
              THEN resetSimulation(c, cl, e0,
                       IF c = "viewport" THEN te.desired ELSE "none", FALSE, tl, vp, d)
              ELSE e0
    IN  IF c = "cover" /\ Len(e1.grid.current) # worldDims(c, cl, e1)[1]
        THEN [e |-> e1, pend |-> pend1, acc |-> a0,
              info |-> [skipped |-> "buffers", edge |-> te.edge,
                        setEdge |-> te.changed, steps |-> 0]]
        ELSE LET e2 == IF c = "viewport" /\ e1.dims # computeDims(te.edge, cl.cellSize, vp)
                       THEN resetSimulation(c, cl, e1, te.edge, FALSE, tl, vp, d)
                       ELSE e1
                 sd == stepsDue(c, cl.running, a0, due)
                 e3 == runSteps(c, e2, cl.lut, worldDims(c, cl, e2)[2], sd[1])
             IN  [e |-> e3, pend |-> pend1, acc |-> sd[2],
                  info |-> [skipped |-> "no", edge |-> te.edge,
                            setEdge |-> te.changed, steps |-> sd[1]]]

\* tick(now), up to the draw: the engine, the queued activeEdge, the accumulator
\* and what the frame did.
frame(c, cl, e0, pend0, a0, tl, vp, due, d) ==
    IF c = "cover" /\ (e0.canvas[1] < 2 \/ e0.canvas[2] < 2)
    THEN [e |-> e0, pend |-> pend0, acc |-> a0,
          info |-> [skipped |-> "surface", edge |-> "none", setEdge |-> FALSE, steps |-> 0]]
    ELSE LET te == tickEdge(cl, tl)
             pend1 == IF te.changed THEN te.desired ELSE pend0
             e1 == IF te.changed
                   THEN resetSimulation(c, cl, e0,
                            IF c = "viewport" THEN te.desired ELSE "none", FALSE, tl, vp, d)
                   ELSE e0
         IN  IF c = "cover" /\ Len(e1.grid.current) # worldDims(c, cl, e1)[1]
             THEN [e |-> e1, pend |-> pend1, acc |-> a0,
                   info |-> [skipped |-> "buffers", edge |-> te.edge,
                             setEdge |-> te.changed, steps |-> 0]]
             ELSE LET e2 == IF c = "viewport" /\ e1.dims # computeDims(te.edge, cl.cellSize, vp)
                            THEN resetSimulation(c, cl, e1, te.edge, FALSE, tl, vp, d)
                            ELSE e1
                      sd == stepsDue(c, cl.running, a0, due)
                      e3 == runSteps(c, e2, cl.lut, worldDims(c, cl, e2)[2], sd[1])
                  IN  [e |-> e3, pend |-> pend1, acc |-> sd[2],
                       info |-> [skipped |-> "no", edge |-> te.edge,
                                 setEdge |-> te.changed, steps |-> sd[1]]]

----------------------------------------------------------------------------
(* Inputs the model draws from.                                            *)

\* useState(110)
InitialRule == 110
\* useState(2) of cellSize, and the range its buttons clamp to.
InitialCellSize == 2
CellMin == 1
CellMax == 10

Rules == {90, InitialRule}
\* <<e.beta, e.gamma>> of a deviceorientation event; a field is <<v>> for the
\* number v and <<>> when it is not a number.
OriSamples == {<< <<>>, <<>> >>, << <<9>>, <<>> >>, << <<2>>, <<9>> >>, << <<0>>, <<-9>> >>}
\* <<a.x, a.y>> of a devicemotion event's accelerationIncludingGravity, fields as
\* above; <<>> when the event carries no acceleration.
MotionSamples == {<<>>, << <<>>, <<1>> >>, << <<-1>>, <<0>> >>}
\* Container sizes the ResizeObserver reports, in device pixels.
SurfaceInputs == {<<0, 0>>, <<6, 4>>}
\* Window sizes of the viewport component.
Viewports == {<<9, 8>>, <<18, 16>>}
\* Size of a canvas element nobody has sized yet (the HTML default).
DefaultCanvas == <<300, 150>>

NoEngineGrid == [rows |-> <<>>, head |-> 0, current |-> <<>>]
\* typeof v === "number" ? v : 0
Num(x) == IF x = <<>> THEN 0 ELSE x[1]
Idle == [fn |-> "idle"]

----------------------------------------------------------------------------
(* Initial state: the component function has run once, no effect has.      *)

InitApp ==
    /\ comp \in Components
    /\ phase = "init"
    /\ rule = InitialRule
    /\ lut = makeRuleLUT(InitialRule)
    /\ seedMode = (IF comp = "viewport" THEN "centerSprinkle" ELSE "single")
    /\ manualEdge = "none"
    /\ activeEdge = "bottom"
    /\ pendingEdge = "none"
    /\ motionOn = (comp = "viewport")
    /\ running = TRUE
    /\ worldPreset = "med"
    /\ cellSize = InitialCellSize
    /\ viewport \in (IF comp = "viewport" THEN Viewports ELSE {<<0, 0>>})
    /\ canvas = DefaultCanvas
    /\ tilt = initialTilt(comp)
    /\ dims = <<0, 0>>
    /\ grid = (IF comp = "fit"
               THEN [rows |-> [r \in 1..fitDims[2] |-> ZeroRow(fitDims[1])],
                     head |-> 0, current |-> ZeroRow(fitDims[1])]
               ELSE NoEngineGrid)
    /\ acc = 0
    /\ trace = <<>>
    /\ raf = {}
    /\ rafRef = 0

Init == InitApp /\ probe = Idle

\* Variant of cancelFrame that leaves the request pending.
cancelFrameNoop(q, h) == q

\* cancelAnimationFrame(h) on the pending callbacks q.
cancelFrame(q, h) == {cb \in q : cb.id # h}

\* requestAnimationFrame(tick) on the pending callbacks q: the new queue and the
\* handle returned. live tells whether the callback belongs to the frame loop
\* of the latest render.
requestFrame(q) ==
    LET free == {i \in 1..(Cardinality(q) + 1) : \A cb \in q : cb.id # i}
        id   == CHOOSE i \in free : \A j \in free : i <= j
    IN  [raf |-> q \cup {[id |-> id, live |-> TRUE]}, handle |-> id]

\* A handler that causes no render, or a render that leaves the frame-loop
\* effect's dependencies alone.
KeepLoop == UNCHANGED <<raf, rafRef>>

\* The frame-loop effect run for the first time: rafRef.current = requestAnimationFrame(tick).
StartLoop ==
    LET r == requestFrame(raf)
    IN  raf' = r.raf /\ rafRef' = r.handle

\* A render that changes a dependency of the frame-loop effect: the cleanup
\* cancels rafRef.current, then the effect requests the first frame of a new loop.
RestartLoop ==
    LET stopped == {[cb EXCEPT !.live = FALSE] : cb \in cancelFrame(raf, rafRef)}
        r == requestFrame(stopped)
    IN  raf' = r.raf /\ rafRef' = r.handle

\* The browser runs the pending callback cb; tick ends every path with
\* rafRef.current = requestAnimationFrame(tick).
RunFrame(cb) ==
    LET r == requestFrame(raf \ {cb})
    IN  raf' = r.raf /\ rafRef' = r.handle

\* Writes a handler's results back to the state.
Apply(cl, e, pend, a) ==
    /\ rule' = cl.rule
    /\ lut' = cl.lut
    /\ seedMode' = cl.seedMode
    /\ manualEdge' = cl.manualEdge
    /\ activeEdge' = cl.activeEdge
    /\ motionOn' = cl.motionOn
    /\ running' = cl.running
    /\ worldPreset' = cl.worldPreset
    /\ cellSize' = cl.cellSize
    /\ grid' = e.grid
    /\ dims' = e.dims
    /\ canvas' = e.canvas
    /\ trace' = e.trace
    /\ pendingEdge' = pend
    /\ acc' = a

\* The steps of the live loop stay within H + StepsBeyond of the last reset, and
\* the accumulator within MaxDebt steps below zero.
WithinBound(e, a) ==
    /\ Len(e.trace) <= Len(e.grid.rows) + StepsBeyond + 1
    /\ a >= -(MaxDebt * AccUnit)

----------------------------------------------------------------------------
(* Handlers.                                                               *)

\* First commit: every effect runs once, in source order.
Mount(d) ==
    /\ phase = "init"
    /\ phase' = "mounted"
    /\ LET cl == Closure
           e0 == IF comp = "cover"
                 THEN [Engine EXCEPT
                          !.grid = [rows |-> [r \in 1..presetDims(worldPreset)[2] |->
                                                 ZeroRow(presetDims(worldPreset)[1])],
                                    head |-> 0,
                                    current |-> ZeroRow(presetDims(worldPreset)[1])]]
                 ELSE Engine
           e1 == IF comp = "cover"
                 THEN resetSimulation(comp, cl, e0, "none", FALSE, tilt, viewport, d)
                 ELSE e0
           e2 == resetSimulation(comp, cl, e1, "none", FALSE, tilt, viewport, d)
           e3 == resetSimulation(comp, cl, e2, "none", FALSE, tilt, viewport, d)
       IN  Apply(cl, e3, pendingEdge, 0)
    /\ StartLoop
    /\ UNCHANGED <<comp, viewport, tilt, probe>>

\* requestAnimationFrame callback of the live loop.
Tick(due, d) ==
    /\ phase = "mounted"
    /\ \E cb \in raf : cb.live /\ RunFrame(cb)
    /\ LET out == frame(comp, Closure, Engine, pendingEdge, acc, tilt, viewport, due, d)
       IN  /\ WithinBound(out.e, out.acc)
           /\ Apply(Closure, out.e, out.pend, out.acc)
    /\ UNCHANGED <<comp, phase, viewport, tilt, probe>>

\* Render that commits a queued setActiveEdge: the frame loop is re-created.
CommitEdge ==
    /\ phase = "mounted"
    /\ pendingEdge # "none"
    /\ Apply([Closure EXCEPT !.activeEdge = pendingEdge], Engine, "none", 0)
    /\ RestartLoop
    /\ UNCHANGED <<comp, phase, viewport, tilt, probe>>

\* onOri / handleOri.
Orientation(s) ==
    /\ phase = "mounted"
    /\ comp = "viewport" \/ motionOn
    /\ tilt' = tiltSample(comp, Num(s[1]), Num(s[2]))
    /\ UNCHANGED <<comp, phase, rule, lut, seedMode, manualEdge, activeEdge, pendingEdge,
                   motionOn, running, worldPreset, cellSize, viewport, canvas, dims,
                   grid, acc, trace, raf, rafRef, probe>>

\* onMotion of the cover component.
DeviceMotion(a) ==
    /\ phase = "mounted"
    /\ comp = "cover"
    /\ motionOn
    /\ a # <<>>
    /\ tilt' = tiltSample(comp,
                   clamp(Num(a[2]) * MotionFactor, -MotionLimit, MotionLimit),
                   clamp(Num(a[1]) * MotionFactor, -MotionLimit, MotionLimit))
    /\ UNCHANGED <<comp, phase, rule, lut, seedMode, manualEdge, activeEdge, pendingEdge,
                   motionOn, running, worldPreset, cellSize, viewport, canvas, dims,
                   grid, acc, trace, raf, rafRef, probe>>

\* Variant of SetRule whose render runs no reset effect.
SetRuleNoReset(n, d) ==
    /\ phase = "mounted"
    /\ LET r  == clamp(n, 0, 255)
           cl == [Closure EXCEPT !.rule = r, !.lut = makeRuleLUT(r)]
       IN  /\ r # rule
           /\ Apply(cl, Engine, pendingEdge, 0)
    /\ RestartLoop
    /\ UNCHANGED <<comp, phase, viewport, tilt, probe>>

\* setRule(r) and the render it causes: lut is recomputed, the rule effect
\* resets the simulation and the frame loop is re-created.
SetRule(n, d) ==
    /\ phase = "mounted"
    /\ LET r  == clamp(n, 0, 255)
           cl == [Closure EXCEPT !.rule = r, !.lut = makeRuleLUT(r)]
           e  == resetSimulation(comp, cl, Engine, "none", FALSE, tilt, viewport, d)
       IN  /\ r # rule
           /\ Apply(cl, e, pendingEdge, 0)
    /\ RestartLoop
    /\ UNCHANGED <<comp, phase, viewport, tilt, probe>>

\* setSeedMode(m) and the render it causes (no seed control in the fit component).
SetSeedMode(m, d) ==
    /\ phase = "mounted"
    /\ comp # "fit"
    /\ m \in (IF comp = "cover" THEN {"single", "random"}
              ELSE {"single", "centerSprinkle", "random"})
    /\ m # seedMode
    /\ LET cl == [Closure EXCEPT !.seedMode = m]
           e  == resetSimulation(comp, cl, Engine, "none", FALSE, tilt, viewport, d)
       IN  Apply(cl, e, pendingEdge, 0)
    /\ RestartLoop
    /\ UNCHANGED <<comp, phase, viewport, tilt, probe>>

\* setManualEdge(m) and the render it causes: the manualEdge effect queues
\* setActiveEdge and resets when the override differs from activeEdge.
SetManualEdge(m, d) ==
    /\ phase = "mounted"
    /\ m # manualEdge
    /\ LET cl   == [Closure EXCEPT !.manualEdge = m]
           fire == m # "none" /\ m # activeEdge
           e    == IF fire
                   THEN resetSimulation(comp, cl, Engine,
                            IF comp = "viewport" THEN m ELSE "none", FALSE, tilt, viewport, d)
                   ELSE Engine
       IN  Apply(cl, e, IF fire THEN m ELSE pendingEdge, 0)
    /\ RestartLoop
    /\ UNCHANGED <<comp, phase, viewport, tilt, probe>>

\* setRunning(v => !v) and the render it causes.
ToggleRunning ==
    /\ phase = "mounted"
    /\ Apply([Closure EXCEPT !.running = ~running], Engine, pendingEdge, 0)
    /\ RestartLoop
    /\ UNCHANGED <<comp, phase, viewport, tilt, probe>>

\* enableMotion of the cover and fit components (res is the permission outcome),
\* the Motion checkbox of the viewport component.
SetMotion(res) ==
    /\ phase = "mounted"
    /\ LET on == IF comp = "viewport" THEN ~motionOn ELSE res # "denied"
       IN  /\ on # motionOn
           /\ Apply([Closure EXCEPT !.motionOn = on], Engine, pendingEdge, 0)
    /\ RestartLoop
    /\ UNCHANGED <<comp, phase, viewport, tilt, probe>>

\* The Reset button.
ResetButton(d) ==
    /\ phase = "mounted"
    /\ LET e == resetSimulation(comp, Closure, Engine, "none", FALSE, tilt, viewport, d)
       IN  Apply(Closure, e, pendingEdge, acc)
    /\ KeepLoop
    /\ UNCHANGED <<comp, phase, viewport, tilt, probe>>

\* setWorldPreset(p) of the cover component: the W/H effect rebuilds the buffers
\* and resets, the frame loop is re-created.
SetWorldPreset(p, d) ==
    /\ phase = "mounted"
    /\ comp = "cover"
    /\ p # worldPreset
    /\ LET cl == [Closure EXCEPT !.worldPreset = p]
           WH == presetDims(p)
           e0 == [Engine EXCEPT !.grid = [rows |-> [r \in 1..WH[2] |-> ZeroRow(WH[1])],
                                          head |-> 0, current |-> ZeroRow(WH[1])]]
           e  == resetSimulation(comp, cl, e0, "none", FALSE, tilt, viewport, d)
       IN  Apply(cl, e, pendingEdge, 0)
    /\ RestartLoop
    /\ UNCHANGED <<comp, phase, viewport, tilt, probe>>

\* The zoom buttons of the viewport component: setCellSize(s => clamp(s + by, 1, 10)).
SetCellSize(by, d) ==
    /\ phase = "mounted"
    /\ comp = "viewport"
    /\ LET cs == clamp(cellSize + by, CellMin, CellMax)
           cl == [Closure EXCEPT !.cellSize = cs]
           e  == resetSimulation(comp, cl, Engine, "none", FALSE, tilt, viewport, d)
       IN  /\ cs # cellSize
           /\ cs <= MaxCellSize
           /\ Apply(cl, e, pendingEdge, 0)
    /\ RestartLoop
    /\ UNCHANGED <<comp, phase, viewport, tilt, probe>>

\* setSprinkleProb of the viewport component: the same effect as a rule change.
SetSprinkleProb(d) ==
    /\ phase = "mounted"
    /\ comp = "viewport"
    /\ seedMode = "centerSprinkle"
    /\ LET e == resetSimulation(comp, Closure, Engine, "none", FALSE, tilt, viewport, d)
       IN  Apply(Closure, e, pendingEdge, 0)
    /\ RestartLoop
    /\ UNCHANGED <<comp, phase, viewport, tilt, probe>>

\* setZoom, setHudOpen, setFillMode: only the frame loop is re-created.
SetViewOption ==
    /\ phase = "mounted"
    /\ comp # "viewport"
    /\ Apply(Closure, Engine, pendingEdge, 0)
    /\ RestartLoop
    /\ UNCHANGED <<comp, phase, viewport, tilt, probe>>

\* window resize of the viewport component: onResize resets with fresh dims.
WindowResize(vp, d) ==
    /\ phase = "mounted"
    /\ comp = "viewport"
    /\ vp # viewport
    /\ viewport' = vp
    /\ LET e == resetSimulation(comp, Closure, Engine, "none", FALSE, tilt, vp, d)
       IN  Apply(Closure, e, pendingEdge, acc)
    /\ KeepLoop
    /\ UNCHANGED <<comp, phase, tilt, probe>>

\* ResizeObserver callback of the cover and fit components.
ObserveResize(sz) ==
    /\ phase = "mounted"
    /\ comp # "viewport"
    /\ Apply(Closure, [Engine EXCEPT !.canvas = <<Max(1, sz[1]), Max(1, sz[2])>>],
             pendingEdge, acc)
    /\ KeepLoop
    /\ UNCHANGED <<comp, phase, viewport, tilt, probe>>

----------------------------------------------------------------------------------------------------------------------------------------
(* The components as state machines.                                       *)

\* The random draws that can matter to a reset in seed mode m of component c.
DrawsFor(c, m) == IF c = "fit" \/ m = "single" THEN {"nothing"} ELSE {"first", "all"}

\* History scenario: frames, resets, rule, seed-mode, world and edge changes,
\* with whole steps due in every frame and a window that is not resized.
InitHist == Init /\ viewport \in {<<0, 0>>, <<9, 8>>}

NextHist ==
    \/ \E d \in DrawsFor(comp, seedMode) : Mount(d)
    \/ \E due \in {0, 1, AccUnit, 2 * AccUnit}, d \in DrawsFor(comp, seedMode) : Tick(due, d)
    \/ CommitEdge
    \/ ToggleRunning
    \/ \E n \in Rules, d \in DrawsFor(comp, seedMode) : SetRule(n, d)
    \/ \E m \in (IF comp = "cover" THEN {"single", "random"} ELSE {"single", "centerSprinkle"}) :
          \E d \in DrawsFor(comp, m) : SetSeedMode(m, d)
    \/ \E m \in {"none", "left", "top"}, d \in DrawsFor(comp, seedMode) : SetManualEdge(m, d)
    \/ \E d \in DrawsFor(comp, seedMode) : ResetButton(d)
    \/ \E p \in {"low", "med"}, d \in DrawsFor(comp, seedMode) : SetWorldPreset(p, d)

Spec == InitHist /\ [][NextHist]_vars

\* Edge scenario: tilt samples, motion permission, manual override, queued
\* activeEdge commits and frames, under the initial rule and seed mode.
NextEdge ==
    \/ \E d \in DrawsFor(comp, seedMode) : Mount(d)
    \/ \E due \in {0, AccUnit}, d \in DrawsFor(comp, seedMode) : Tick(due, d)
    \/ CommitEdge
    \/ \E s \in OriSamples : Orientation(s)
    \/ \E a \in MotionSamples : DeviceMotion(a)
    \/ \E res \in {"granted", "denied", "threw"} : SetMotion(res)
    \/ \E m \in Edges \cup {"none"}, d \in DrawsFor(comp, seedMode) : SetManualEdge(m, d)
    \/ \E vp \in Viewports, d \in DrawsFor(comp, seedMode) : WindowResize(vp, d)
    \/ \E d \in DrawsFor(comp, seedMode) : ResetButton(d)

SpecEdge == Init /\ [][NextEdge]_vars

----------------------------------------------------------------------------
(* The pure functions on their own: Init draws the arguments, one action   *)
(* per function applies it.                                                *)

\* Rows of up to MaxRow cells are stepped; tilt angles reach MaxAngle degrees.
MaxRow == 4
MaxAngle == 10

RECURSIVE BitRows(_)
BitRows(n) ==
    IF n = 0 THEN {<<>>}
    ELSE {Append(r, b) : r \in BitRows(n - 1), b \in {0, 1}}

ProbeRules == {0, 30, 90, InitialRule, 184, 255}
ProbeAngles == {-MaxAngle, -Deadzone, -5, -3, 0, 3, 5, Deadzone, MaxAngle}

StepProbes ==
    {[fn |-> "stepECA", prev |-> r, lut |-> makeRuleLUT(c), done |-> FALSE, out |-> <<>>] :
        r \in UNION {BitRows(n) : n \in 1..MaxRow}, c \in ProbeRules}

LutProbes ==
    {[fn |-> "makeRuleLUT", rule |-> c, done |-> FALSE, out |-> <<>>] : c \in 0..255}

EdgeProbes ==
    {[fn |-> "dominantEdgeFromTilt", c |-> c, beta |-> b, gamma |-> g, deadzone |-> z,
      done |-> FALSE, out |-> "none"] :
        c \in Components, b \in ProbeAngles, g \in ProbeAngles, z \in {3, Deadzone}}

\* A fresh single-seed simulation of W x H cells under rule c, stepped n times.
RunProbes ==
    {[fn |-> "run", W |-> w, H |-> h, rule |-> c, n |-> 0,
      g |-> resetGrid(w, h, buildInitRow(w, "single", "nothing"))] :
        w \in {1, 2, 7}, h \in {1, 4}, c \in {90, InitialRule}}

InitPure ==
    /\ InitApp
    /\ comp = "fit"
    /\ probe \in StepProbes \cup LutProbes \cup EdgeProbes \cup RunProbes

AppVars ==
    <<comp, phase, rule, lut, seedMode, manualEdge, activeEdge, pendingEdge, motionOn,
      running, worldPreset, cellSize, viewport, canvas, tilt, dims, grid, acc, trace,
      raf, rafRef>>

CallStepECA ==
    /\ probe.fn = "stepECA" /\ ~probe.done
    /\ probe' = [probe EXCEPT !.out = stepECA(probe.prev, probe.lut), !.done = TRUE]
    /\ UNCHANGED AppVars

CallMakeRuleLUT ==
    /\ probe.fn = "makeRuleLUT" /\ ~probe.done
    /\ probe' = [probe EXCEPT !.out = makeRuleLUT(probe.rule), !.done = TRUE]
    /\ UNCHANGED AppVars

CallDominantEdge ==
    /\ probe.fn = "dominantEdgeFromTilt" /\ ~probe.done
    /\ probe' = [probe EXCEPT
                    !.out = dominantEdgeFromTilt(probe.c, probe.beta, probe.gamma, probe.deadzone),
                    !.done = TRUE]
    /\ UNCHANGED AppVars

\* One pass of tick's stepping loop on the probe's simulation.
RunStep ==
    /\ probe.fn = "run" /\ probe.n < probe.H + StepsBeyond
    /\ probe' = [probe EXCEPT !.g = stepOnce("fit", probe.g, makeRuleLUT(probe.rule), probe.H),
                              !.n = @ + 1]
    /\ UNCHANGED AppVars

NextPure == CallStepECA \/ CallMakeRuleLUT \/ CallDominantEdge \/ RunStep

SpecPure == InitPure /\ [][NextPure]_vars

----------------------------------------------------------------------------
(* Properties of the pure functions (checked under SpecPure).              *)

\* C1: stepECA(prev, lut) returns a row of the length of prev whose cell i is
\* lut[4*left + 2*mid + right], the neighbours outside the row counting as 0:
\* it is the rule applied to prev padded with one zero cell on either side.
C1_StepFixedBoundary ==
    (probe.fn = "stepECA" /\ probe.done) =>
        LET padded == <<0>> \o probe.prev \o <<0>>
        IN  /\ Len(probe.out) = Len(probe.prev)
            /\ \A j \in 1..Len(probe.prev) :
                  probe.out[j] =
                      probe.lut[4 * padded[j] + 2 * padded[j + 1] + padded[j + 2] + 1]

\* A stepped row with both end cells alive, where a wrapping boundary would
\* read a live neighbour.
C1_Witness ==
    /\ probe.fn = "stepECA" /\ probe.done
    /\ Len(probe.prev) >= 3
    /\ probe.prev[1] = 1 /\ probe.prev[Len(probe.prev)] = 1
    /\ probe.lut = makeRuleLUT(90)
    /\ probe.out[1] = 0

\* C2: makeRuleLUT(ruleCode) has exactly 8 entries, each a bit, and entry i is
\* bit i of the rule code: the entries are the binary expansion of the code.
C2_LutIsBinaryExpansion ==
    (probe.fn = "makeRuleLUT" /\ probe.done) =>
        /\ Len(probe.out) = 8
        /\ \A j \in 1..8 : probe.out[j] \in {0, 1}
        /\ probe.rule = probe.out[1] + 2 * probe.out[2] + 4 * probe.out[3]
                        + 8 * probe.out[4] + 16 * probe.out[5] + 32 * probe.out[6]
                        + 64 * probe.out[7] + 128 * probe.out[8]

\* The table of rule 110 has been built.
C2_Witness ==
    /\ probe.fn = "makeRuleLUT" /\ probe.done
    /\ probe.rule = 110
    /\ probe.out = <<0, 1, 1, 1, 0, 1, 1, 0>>

\* The row of g that is k steps older than g.current, by the index formula
\* (head - k + H) mod H.
rowAtOffset(g, k, H) == g.rows[((g.head - k + H) % H) + 1]

\* C6: with W=7, H=4, the single seed and rule 90, the first three steps give
\* row1, row2, row3, and after the third the buffer holds seed, row1, row2,
\* row3 at time-offsets 3, 2, 1, 0.
C6_Rule90Golden ==
    (probe.fn = "run" /\ probe.W = 7 /\ probe.H = 4 /\ probe.rule = 90) =>
        LET seed == <<0, 0, 0, 1, 0, 0, 0>>
            row1 == <<0, 0, 1, 0, 1, 0, 0>>
            row2 == <<0, 1, 0, 0, 0, 1, 0>>
            row3 == <<1, 0, 1, 0, 1, 0, 1>>
        IN  /\ probe.n = 0 => probe.g.current = seed
            /\ probe.n = 1 => probe.g.current = row1
            /\ probe.n = 2 => probe.g.current = row2
            /\ probe.n = 3 => /\ probe.g.current = row3
                              /\ rowAtOffset(probe.g, 0, 4) = row3
                              /\ rowAtOffset(probe.g, 1, 4) = row2
                              /\ rowAtOffset(probe.g, 2, 4) = row1
                              /\ rowAtOffset(probe.g, 3, 4) = seed

\* The 7 x 4 rule-90 simulation after its third step.
C6_Witness ==
    /\ probe.fn = "run" /\ probe.W = 7 /\ probe.H = 4 /\ probe.rule = 90
    /\ probe.n = 3
    /\ probe.g.head = 3

\* The edge the claim gives for a tilt, with the labels lr = <<label for
\* gamma >= 0, label for gamma < 0>> on the left/right axis.
edgeByRule(beta, gamma, deadzone, lr) ==
    CASE Abs(beta) < deadzone /\ Abs(gamma) < deadzone -> "none"
      [] ~(Abs(beta) < deadzone /\ Abs(gamma) < deadzone) /\ Abs(gamma) >= Abs(beta) ->
            (IF gamma >= 0 THEN lr[1] ELSE lr[2])
      [] OTHER -> (IF beta >= 0 THEN "top" ELSE "bottom")

\* C7 as stated: in every component a tilt dominated by gamma gives right for
\* gamma >= 0 and left for gamma < 0.
C7_AsStated ==
    (probe.fn = "dominantEdgeFromTilt" /\ probe.done) =>
        probe.out = edgeByRule(probe.beta, probe.gamma, probe.deadzone, <<"right", "left">>)

\* C7, amended: none exactly inside the deadzone on both axes; otherwise, when
\* |gamma| >= |beta|, the fit and viewport components give right for gamma >= 0
\* and left for gamma < 0 while the cover component gives left for gamma >= 0 and
\* right for gamma < 0; otherwise top for beta >= 0 and bottom for beta < 0. With
\* deadzone 6: (5,5) none, (10,3) top, (3,10) right (left in the cover component).
C7_EdgeFromTilt ==
    (probe.fn = "dominantEdgeFromTilt" /\ probe.done) =>
        LET lr == IF probe.c = "cover" THEN <<"left", "right">> ELSE <<"right", "left">>
        IN  /\ probe.out = edgeByRule(probe.beta, probe.gamma, probe.deadzone, lr)
            /\ (probe.out = "none") <=>
                  (Abs(probe.beta) < probe.deadzone /\ Abs(probe.gamma) < probe.deadzone)
            /\ probe.deadzone = 6 =>
                  /\ (probe.beta = 5 /\ probe.gamma = 5) => probe.out = "none"
                  /\ (probe.beta = 10 /\ probe.gamma = 3) => probe.out = "top"
                  /\ (probe.beta = 3 /\ probe.gamma = 10) => probe.out = lr[1]

\* The cover component has decided the tilt (3, 10) at deadzone 6.
C7_Witness ==
    /\ probe.fn = "dominantEdgeFromTilt" /\ probe.done
    /\ probe.c = "cover" /\ probe.deadzone = 6
    /\ probe.beta = 3 /\ probe.gamma = 10
    /\ probe.out = "left"

----------------------------------------------------------------------------
(* Properties of the History (checked under Spec).                         *)

\* The H of the live frame loop and the number of steps since the last reset.
liveH == worldDims(comp, Closure, Engine)[2]
stepsSinceReset == Len(trace) - 1

\* C3: after every reset and every ECA step, in any sequence of frames, resets,
\* rule changes and edge changes, head is in [0,H) and rows[head] equals current
\* cell for cell.
C3_HeadRowIsCurrent ==
    phase = "mounted" =>
        /\ grid.head \in 0..(liveH - 1)
        /\ Len(grid.rows) = liveH
        /\ grid.rows[grid.head + 1] = grid.current

\* A loop that has stepped once around the ring and holds a live row.
C3_Witness ==
    /\ phase = "mounted"
    /\ stepsSinceReset > liveH
    /\ grid.head > 0
    /\ grid.current # ZeroRow(Len(grid.current))

\* C4 as stated: for every k with 0 <= k <= H, after exactly k steps following a
\* reset the seed row is at index (head - k + H) mod H.
C4_AsStated ==
    (phase = "mounted" /\ stepsSinceReset <= liveH) =>
        rowAtOffset(grid, stepsSinceReset, liveH) = trace[1]

\* C4, amended: for every k with 0 <= k < H, after exactly k steps following a
\* reset the seed row is at index (head - k + H) mod H.
C4_SeedRecoverable ==
    (phase = "mounted" /\ stepsSinceReset < liveH) =>
        rowAtOffset(grid, stepsSinceReset, liveH) = trace[1]

\* H - 1 steps after a reset, H - 1 being at least one step.
C4_Witness ==
    /\ phase = "mounted"
    /\ stepsSinceReset = liveH - 1
    /\ stepsSinceReset >= 1
    /\ grid.current # trace[1]

\* C5: after n steps following a reset, for every k in [0, min(n, H-1)] the slot
\* (head - k + H) mod H holds the state after n-k steps; slots not yet written
\* since the reset are all zero; and once n >= H the slot that held the state of
\* step n-H holds the state of step n, every slot holding one of the last H states.
C5_RingHoldsLastStates ==
    phase = "mounted" =>
        LET n == stepsSinceReset
            H == liveH
        IN  /\ \A k \in 0..Min(n, H - 1) : rowAtOffset(grid, k, H) = trace[n - k + 1]
            /\ \A k \in 0..(H - 1) :
                  k > n => rowAtOffset(grid, k, H) = ZeroRow(Len(grid.current))
            /\ n >= H => grid.rows[((n - H) % H) + 1] = trace[n + 1]
            /\ \A s \in 1..H : \E k \in 0..(H - 1) :
                  /\ s = ((grid.head - k + H) % H) + 1
                  /\ grid.rows[s] = (IF k <= n THEN trace[n - k + 1]
                                     ELSE ZeroRow(Len(grid.current)))

\* More than H steps after a reset, the seed differing from every stored row.
C5_Witness ==
    /\ phase = "mounted"
    /\ stepsSinceReset > liveH
    /\ \A s \in 1..liveH : grid.rows[s] # trace[1]

\* C10: a rule change always resets the History, so for every k with
\* 1 <= k <= min(steps since the last reset, H-1) the row at time-offset k-1 is
\* stepECA of the row at time-offset k under the LUT of the current rule.
C10_HistoryUnderOneRule ==
    phase = "mounted" =>
        \A k \in 1..Min(stepsSinceReset, liveH - 1) :
            rowAtOffset(grid, k - 1, liveH) =
                stepECA(rowAtOffset(grid, k, liveH), makeRuleLUT(rule))

\* The rule was changed and the loop has stepped at least twice since.
C10_Witness ==
    /\ phase = "mounted"
    /\ rule # InitialRule
    /\ stepsSinceReset >= 2
    /\ grid.current # stepECA(rowAtOffset(grid, 1, liveH), makeRuleLUT(InitialRule))

----------------------------------------------------------------------------
(* Properties of the edge resolution (checked under SpecEdge).             *)

\* What the next frame of the live loop would do, for every elapsed time and
\* every random draw the scenario offers.
nextFrames ==
    { [d |-> d,
       out |-> frame(comp, Closure, Engine, pendingEdge, acc, tilt, viewport, due, d)] :
      due \in {0, AccUnit}, d \in DrawsFor(comp, seedMode) }

\* The latest tilt sample lies outside the deadzone.
outsideDeadzone == Abs(tilt.beta) >= Deadzone \/ Abs(tilt.gamma) >= Deadzone

\* The resolution order written out case by case.
edgeByPrecedence ==
    IF manualEdge # "none" THEN manualEdge
    ELSE IF motionOn /\ outsideDeadzone THEN tilt.edge
    ELSE activeEdge

\* C8: in every frame the resolved edge is ManualEdge when set; otherwise the
\* edge of the latest tilt sample when motion is enabled and the sample is
\* outside the deadzone; otherwise the previous ActiveEdge. So with ManualEdge
\* set the tilt sample does not change the edge, and with the tilt inside the
\* deadzone ActiveEdge keeps its value.
C8_EdgeResolutionOrder ==
    phase = "mounted" =>
        /\ tilt.edge = "none" <=> ~outsideDeadzone
        /\ \A f \in nextFrames :
              f.out.info.skipped # "surface" =>
                 /\ f.out.info.edge = edgeByPrecedence
                 /\ manualEdge # "none" => f.out.info.edge = manualEdge
                 /\ (manualEdge = "none" /\ ~outsideDeadzone) =>
                       /\ f.out.info.edge = activeEdge
                       /\ f.out.pend = pendingEdge
                       /\ ~f.out.info.setEdge

\* ManualEdge is set while an enabled sensor reports another edge, the frame
\* being drawn.
C8_Witness ==
    /\ phase = "mounted"
    /\ manualEdge # "none"
    /\ motionOn
    /\ tilt.edge \notin {"none", manualEdge, activeEdge}
    /\ \E f \in nextFrames : f.out.info.skipped = "no"

\* The History of engine e is a fresh seed drawn with d followed by n steps: the
\* seed is n rows behind head, rows further behind are zero, head is n mod H.
freshHistory(e, d, n) ==
    LET H == Len(e.grid.rows)
        W == Len(e.grid.current)
        seed == buildInitRow(W, IF comp = "fit" THEN "single" ELSE seedMode, d)
    IN  /\ n < H
        /\ e.grid.head = n % H
        /\ rowAtOffset(e.grid, n, H) = seed
        /\ n = 0 => e.grid.current = seed
        /\ \A k \in (n + 1)..(H - 1) : rowAtOffset(e.grid, k, H) = ZeroRow(W)

\* C9 as stated: whenever the edge resolved in a frame differs from ActiveEdge,
\* ActiveEdge is set to it and the History is fully reset; whenever it equals
\* ActiveEdge the frame performs no reset and leaves ActiveEdge unchanged.
C9_AsStated ==
    phase = "mounted" =>
        \A f \in nextFrames :
            f.out.info.skipped # "surface" =>
               /\ edgeByPrecedence # activeEdge =>
                     /\ f.out.pend = edgeByPrecedence
                     /\ f.out.e.resets >= 1
                     /\ freshHistory(f.out.e, f.d, f.out.info.steps)
               /\ edgeByPrecedence = activeEdge =>
                     /\ f.out.pend = pendingEdge
                     /\ f.out.e.resets = 0

\* C9, amended: whenever the edge resolved in a frame differs from ActiveEdge,
\* ActiveEdge is set to it and the History is fully reset, exactly once;
\* whenever it equals ActiveEdge the frame leaves ActiveEdge unchanged and
\* performs no reset, except that the viewport-sized component resets once when
\* its stored dimensions differ from those computed for the resolved edge.
C9_EdgeChangeResets ==
    phase = "mounted" =>
        \A f \in nextFrames :
            f.out.info.skipped # "surface" =>
               /\ edgeByPrecedence # activeEdge =>
                     /\ f.out.pend = edgeByPrecedence
                     /\ f.out.e.resets = 1
                     /\ freshHistory(f.out.e, f.d, f.out.info.steps)
               /\ edgeByPrecedence = activeEdge =>
                     /\ f.out.pend = pendingEdge
                     /\ IF comp = "viewport"
                           /\ dims # computeDims(activeEdge, cellSize, viewport)
                        THEN /\ f.out.e.resets = 1
                             /\ freshHistory(f.out.e, f.d, f.out.info.steps)
                        ELSE f.out.e.resets = 0

\* A frame has just resolved the sensor's edge, queued it as ActiveEdge and
\* reset the History; the next frame of the same loop would do so again.
C9_Witness ==
    /\ phase = "mounted"
    /\ manualEdge = "none"
    /\ pendingEdge # "none"
    /\ pendingEdge = tilt.edge
    /\ pendingEdge # activeEdge
    /\ Len(trace) <= 2
    /\ \E f \in nextFrames : f.out.e.resets = 1 /\ f.out.info.setEdge

----------------------------------------------------------------------------
(* Drawing and rate arithmetic on their own (SpecDraw): Init draws the     *)
(* arguments, one action per function applies it.                          *)

\* Worlds of up to MaxMapW x MaxMapH cells are mapped to the screen.
MaxMapW == 3
MaxMapH == 3

\* Variant of mapToScreen that does not rotate the left and right cases.
mapToScreenUnrotated(edge, t, x, W, H) ==
    CASE edge = "top"   -> [sx |-> x, sy |-> H - 1 - t]
      [] edge = "right" -> [sx |-> x, sy |-> H - 1 - t]
      [] OTHER          -> [sx |-> x, sy |-> t]

\* Variant of mapToScreen with the left and right cases exchanged.
mapToScreenSwapped(edge, t, x, W, H) ==
    CASE edge = "top"   -> [sx |-> x, sy |-> H - 1 - t]
      [] edge = "left"  -> [sx |-> H - 1 - t, sy |-> x]
      [] edge = "right" -> [sx |-> t, sy |-> x]
      [] OTHER          -> [sx |-> x, sy |-> t]

\* mapToScreen(edge, t, x, W, H): the three copies are the same switch.
mapToScreen(edge, t, x, W, H) ==
    CASE edge = "bottom" -> [sx |-> x, sy |-> t]
      [] edge = "top"    -> [sx |-> x, sy |-> H - 1 - t]
      [] edge = "left"   -> [sx |-> t, sy |-> x]
      [] edge = "right"  -> [sx |-> H - 1 - t, sy |-> x]
      [] OTHER           -> [sx |-> x, sy |-> t]

MapProbes ==
    {[fn |-> "mapToScreen", edge |-> e, t |-> t, x |-> x, W |-> w, H |-> h,
      done |-> FALSE, out |-> <<>>] :
        e \in Edges \cup {"none"}, w \in 1..MaxMapW, h \in 1..MaxMapH,
        t \in 0..(MaxMapH - 1), x \in 0..(MaxMapW - 1)}

CallMapToScreen ==
    /\ probe.fn = "mapToScreen" /\ ~probe.done
    /\ probe.t < probe.H /\ probe.x < probe.W
    /\ probe' = [probe EXCEPT
                    !.out = mapToScreen(probe.edge, probe.t, probe.x, probe.W, probe.H),
                    !.done = TRUE]
    /\ UNCHANGED AppVars

\* Tilt angles up to MaxTilt degrees are tried, on either side of the cap.
MaxTilt == 46

\* const baseStepsPerSec = 30 / const minSps = 30
baseStepsPerSec == 30
\* const extraStepsPerSec = 140
extraStepsPerSec == 140
\* const maxSps = 800
maxSps == 800
\* const stepsPerSec = 70 (fit component)
fitStepsPerSec == 70
\* Rates are kept in 1/RateUnit of a step per second.
RateUnit == 1000

\* Math.pow(n / 45, 1.35) for n = 0..45, in 1/RateUnit, rounded to nearest.
pow135 ==
    <<0, 6, 15, 26, 38, 51, 66, 81, 97, 114, 131, 149, 168, 187, 207, 227, 248, 269,
      290, 312, 335, 357, 381, 404, 428, 452, 477, 502, 527, 553, 578, 605, 631, 658,
      685, 712, 740, 768, 796, 824, 853, 882, 911, 940, 970, 1000>>

\* Variant of stepsPerSec that slows down as the tilt grows.
stepsPerSecInverted(c, motion, n) ==
    IF c = "cover"
    THEN baseStepsPerSec * RateUnit
            + (extraStepsPerSec * RateUnit * (SpeedCap - (IF motion THEN n ELSE 0))) \div SpeedCap
    ELSE IF c = "viewport"
    THEN baseStepsPerSec * RateUnit + (maxSps - baseStepsPerSec) * pow135[SpeedCap - n + 1]
    ELSE fitStepsPerSec * RateUnit

\* stepsPerSec of a frame of component c, in 1/RateUnit steps per second, from
\* the stored speed01 = n / SpeedCap.
stepsPerSec(c, motion, n) ==
    IF c = "cover"
    THEN baseStepsPerSec * RateUnit
            + (extraStepsPerSec * RateUnit * (IF motion THEN n ELSE 0)) \div SpeedCap
    ELSE IF c = "viewport"
    THEN baseStepsPerSec * RateUnit + (maxSps - baseStepsPerSec) * pow135[n + 1]
    ELSE fitStepsPerSec * RateUnit

SpeedProbes ==
    {[fn |-> "speed", c |-> c, motion |-> mo, beta |-> b, gamma |-> g,
      done |-> FALSE, out |-> <<>>] :
        c \in Components, mo \in BOOLEAN,
        b \in (0..MaxTilt) \cup {-MaxTilt, -SpeedCap, -1}, g \in {0, -20, MaxTilt}}

\* A sensor sample followed by the rate computation of the next frame.
CallSpeed ==
    /\ probe.fn = "speed" /\ ~probe.done
    /\ LET n == speed01FromTilt(probe.beta, probe.gamma)
       IN  probe' = [probe EXCEPT
                        !.out = [speed01 |-> n, sps |-> stepsPerSec(probe.c, probe.motion, n)],
                        !.done = TRUE]
    /\ UNCHANGED AppVars

\* Surfaces of 2..MaxSurface device pixels a side are drawn to.
MaxSurface == 5
\* The zoom slider moves in steps of 0.05: zoom = zn / ZoomUnit.
ZoomUnit == 20
\* min = 0.25, zoom 1, 1.5 and max = 3 of the slider, in 1/ZoomUnit.
Zooms == {5, ZoomUnit, 30, 60}

\* Math.floor(n / d) for d > 0.
Floor(n, d) == n \div d

\* The cover component's blit: the source window viewW x viewH at (sx, sy) and
\* the destination rectangle. drawW and drawH are numerators over den; dx and
\* dy are whole pixels.
coverBlit(edge, gw, gh, cw, ch, zn) ==
    LET viewW == Max(1, Min(gw, Floor(gw * ZoomUnit, zn)))
        viewH == Max(1, Min(gh, Floor(gh * ZoomUnit, zn)))
        byWidth == cw * viewH >= ch * viewW
        den   == IF byWidth THEN viewW ELSE viewH
        sNum  == IF byWidth THEN cw ELSE ch
        drawW == viewW * sNum
        drawH == viewH * sNum
        midX  == Floor(cw * den - drawW, 2 * den)
        midY  == Floor(ch * den - drawH, 2 * den)
    IN  [viewW |-> viewW, viewH |-> viewH,
         sx |-> Floor(gw - viewW, 2), sy |-> Floor(gh - viewH, 2),
         den |-> den, drawW |-> drawW, drawH |-> drawH,
         dx |-> CASE edge = "left"  -> 0
                  [] edge = "right" -> Floor(cw * den - drawW, den)
                  [] OTHER          -> midX,
         dy |-> CASE edge = "top"    -> 0
                  [] edge = "bottom" -> Floor(ch * den - drawH, den)
                  [] OTHER           -> midY]

BlitProbes ==
    {[fn |-> "coverBlit", edge |-> e, gw |-> gw, gh |-> gh, cw |-> cw, ch |-> ch, zn |-> zn,
      done |-> FALSE, out |-> <<>>] :
        e \in Edges \cup {"none"}, gw \in 1..MaxMapW, gh \in 1..MaxMapH,
        cw \in 2..MaxSurface, ch \in 2..MaxSurface, zn \in Zooms}

CallCoverBlit ==
    /\ probe.fn = "coverBlit" /\ ~probe.done
    /\ probe' = [probe EXCEPT
                    !.out = coverBlit(probe.edge, probe.gw, probe.gh, probe.cw, probe.ch, probe.zn),
                    !.done = TRUE]
    /\ UNCHANGED AppVars

\* Variant of fitBlit whose fit mode takes the larger of the two scales.
fitBlitLargerScale(fillMode, gw, gh, cw, ch, zn) ==
    LET den == ZoomUnit * gw * gh
        sxScale == cw * zn * gh
        syScale == ch * zn * gw
        s == Max(sxScale, syScale)
        drawW == gw * (IF fillMode = "fit" THEN s ELSE sxScale)
        drawH == gh * (IF fillMode = "fit" THEN s ELSE syScale)
    IN  [den |-> den, drawW |-> drawW, drawH |-> drawH,
         dx |-> Floor(cw * den - drawW, 2 * den),
         dy |-> Floor(ch * den - drawH, 2 * den)]

\* The fit component's blit. sxScale and syScale are numerators over
\* den = ZoomUnit * gw * gh, and so are drawW and drawH; dx and dy are whole pixels.
fitBlit(fillMode, gw, gh, cw, ch, zn) ==
    LET den == ZoomUnit * gw * gh
        sxScale == cw * zn * gh
        syScale == ch * zn * gw
        s == Min(sxScale, syScale)
        drawW == gw * (IF fillMode = "fit" THEN s ELSE sxScale)
        drawH == gh * (IF fillMode = "fit" THEN s ELSE syScale)
    IN  [den |-> den, drawW |-> drawW, drawH |-> drawH,
         dx |-> Floor(cw * den - drawW, 2 * den),
         dy |-> Floor(ch * den - drawH, 2 * den)]

FitProbes ==
    {[fn |-> "fitBlit", fillMode |-> fm, gw |-> gw, gh |-> gh, cw |-> cw, ch |-> ch, zn |-> zn,
      done |-> FALSE, out |-> <<>>] :
        fm \in {"fit", "stretch"}, gw \in 1..MaxMapW, gh \in 1..MaxMapH,
        cw \in 2..MaxSurface, ch \in 2..MaxSurface, zn \in Zooms}
    \cup
    {[fn |-> "fitBlit", fillMode |-> fm, gw |-> 10, gh |-> 20, cw |-> 100, ch |-> 100,
      zn |-> ZoomUnit, done |-> FALSE, out |-> <<>>] : fm \in {"fit", "stretch"}}

CallFitBlit ==
    /\ probe.fn = "fitBlit" /\ ~probe.done
    /\ probe' = [probe EXCEPT
                    !.out = fitBlit(probe.fillMode, probe.gw, probe.gh, probe.cw, probe.ch, probe.zn),
                    !.done = TRUE]
    /\ UNCHANGED AppVars

\* ensureOffscreen(edge): <<gw, gh>> of the logical grid of a W x H world; the
\* viewport component computes the same pair as gridWidth and gridHeight.
logicalGrid(edge, W, H) == IF edge \in {"left", "right"} THEN <<H, W>> ELSE <<W, H>>

\* Variant of rasterize whose window starts at the newest row: row t of the
\* window is rows[(head - t + H) % H].
rasterizeNewestFirst(g, W, H, edge) ==
    LET gr == logicalGrid(edge, W, H)
        hits == {mapToScreen(edge, tx[1], tx[2], W, H) :
                    tx \in {c \in (0..(H - 1)) \X (0..(W - 1)) :
                               g.rows[((g.head - c[1] + H) % H) + 1][c[2] + 1] = 1}}
    IN  [gw |-> gr[1], gh |-> gr[2],
         black |-> {p \in hits : ~(p.sx < 0 \/ p.sx >= gr[1] \/ p.sy < 0 \/ p.sy >= gr[2])},
         dropped |-> {p \in hits : p.sx < 0 \/ p.sx >= gr[1] \/ p.sy < 0 \/ p.sy >= gr[2]}]

\* The draw loops of tick on the History g of a W x H world: the logical grid
\* <<gw, gh>> and the set of its pixels painted black. Row t of the window is
\* rows[(head - (H-1-t) + H) % H]; a projected pixel outside the grid is dropped.
rasterize(g, W, H, edge) ==
    LET gr == logicalGrid(edge, W, H)
        hits == {mapToScreen(edge, tx[1], tx[2], W, H) :
                    tx \in {c \in (0..(H - 1)) \X (0..(W - 1)) :
                               g.rows[((g.head - (H - 1 - c[1]) + H) % H) + 1][c[2] + 1] = 1}}
    IN  [gw |-> gr[1], gh |-> gr[2],
         black |-> {p \in hits : ~(p.sx < 0 \/ p.sx >= gr[1] \/ p.sy < 0 \/ p.sy >= gr[2])},
         dropped |-> {p \in hits : p.sx < 0 \/ p.sx >= gr[1] \/ p.sy < 0 \/ p.sy >= gr[2]}]

\* The picture a frame with outcome f draws; nothing when the frame returned early.
framePicture(c, cl, f) ==
    IF f.info.skipped # "no" THEN [gw |-> 0, gh |-> 0, black |-> {}, dropped |-> {}]
    ELSE LET WH == worldDims(c, cl, f.e)
         IN  rasterize(f.e.grid, WH[1], WH[2], f.info.edge)

InitDraw ==
    /\ InitApp
    /\ comp = "cover"
    /\ probe \in MapProbes \cup SpeedProbes \cup BlitProbes \cup FitProbes

NextDraw ==
    \/ CallMapToScreen
    \/ CallSpeed
    \/ CallCoverBlit
    \/ CallFitBlit

SpecDraw == InitDraw /\ [][NextDraw]_vars

----------------------------------------------------------------------------
(* Properties of the step accumulator (checked under Spec).                *)

\* dt * stepsPerSec of the frames of Spec, in accumulator units.
frameDues == {0, 1, AccUnit, 2 * AccUnit}

\* What the next frame of the live loop would do, for every elapsed time and
\* every random draw of Spec.
histFrames ==
    { [due |-> due, d |-> d,
       out |-> frame(comp, Closure, Engine, pendingEdge, acc, tilt, viewport, due, d)] :
      due \in frameDues, d \in DrawsFor(comp, seedMode) }

\* C12: in every frame while running, after accumulator += dt * stepsPerSecond
\* the number of steps applied is exactly floor(accumulator), never negative,
\* and the accumulator left after the frame is in [0,1).
C12_AsStated ==
    (phase = "mounted" /\ running) =>
        \A f \in histFrames :
            f.out.info.skipped = "no" =>
               /\ f.out.info.steps = (acc + f.due) \div AccUnit
               /\ f.out.info.steps >= 0
               /\ f.out.acc >= 0
               /\ f.out.acc < AccUnit

\* The same elapsed time a + b spent in one frame and in two frames of the live
\* loop, from the current state: the outcome of each frame.
splitFrames ==
    { [a |-> a, b |-> b,
       whole  |-> frame(comp, Closure, Engine, pendingEdge, acc, tilt, viewport, a + b, d),
       first  |-> frame(comp, Closure, Engine, pendingEdge, acc, tilt, viewport, a, d),
       second |-> LET f1 == frame(comp, Closure, Engine, pendingEdge, acc, tilt, viewport, a, d)
                  IN  frame(comp, Closure, f1.e, f1.pend, f1.acc, tilt, viewport, b, d)] :
      a \in {1, AccUnit}, b \in {1, AccUnit}, d \in DrawsFor(comp, seedMode) }

\* C13: over any sequence of running frames with a constant stepsPerSecond the
\* steps applied plus the remaining accumulator equal the sum of
\* dt * stepsPerSecond, no fractional step is lost, and two frame partitions of
\* the same elapsed time apply the same number of steps up to the fraction (in
\* [0,1)) still held in the accumulator.
C13_AsStated ==
    (phase = "mounted" /\ running) =>
        \A p \in splitFrames :
            /\ p.whole.info.steps * AccUnit + p.whole.acc = acc + p.a + p.b
            /\ (p.first.info.steps + p.second.info.steps) * AccUnit + p.second.acc
                  = acc + p.a + p.b
            /\ p.whole.acc >= 0 /\ p.whole.acc < AccUnit
            /\ p.second.acc >= 0 /\ p.second.acc < AccUnit
            /\ p.whole.info.steps = p.first.info.steps + p.second.info.steps

\* C14: while paused a frame applies zero steps, leaves rows, head and current
\* unchanged unless it resets, and leaves the accumulator at most 2; so the
\* accumulator never exceeds 2 and a running frame, the first after a pause
\* included, applies at most floor(2 + dt * stepsPerSecond) steps.
C14_PauseClampsAccumulator ==
    phase = "mounted" =>
        /\ acc <= PauseCeiling * AccUnit
        /\ \A f \in histFrames :
              /\ ~running =>
                    /\ f.out.info.steps = 0
                    /\ f.out.acc <= PauseCeiling * AccUnit
                    /\ f.out.e.trace = (IF f.out.e.resets = 0 THEN trace
                                        ELSE <<f.out.e.trace[1]>>)
                    /\ f.out.e.resets = 0 => f.out.e.grid = grid
              /\ running =>
                    f.out.info.steps <= (PauseCeiling * AccUnit + f.due) \div AccUnit

\* Paused after at least one step, the accumulator at the ceiling while a further
\* frame adds to it.
C14_Witness ==
    /\ phase = "mounted"
    /\ ~running
    /\ Len(trace) >= 2
    /\ acc = PauseCeiling * AccUnit
    /\ \E f \in histFrames : acc + f.due > PauseCeiling * AccUnit /\ f.out.acc = acc

----------------------------------------------------------------------------
(* Properties of the rate and of the blit (checked under SpecDraw).        *)

\* C15: speed01 = min(max(|beta|,|gamma|), 45) / 45 lies in [0,1]; stepsPerSecond
\* is non-decreasing in speed01, equal to the base rate 30 at speed01 = 0 and to
\* base + maxExtra at speed01 = 1; a larger tilt never yields a lower rate.
C15_SpeedMonotone ==
    (probe.fn = "speed" /\ probe.done) =>
        LET mag == Max(Abs(probe.beta), Abs(probe.gamma))
            gated == probe.c = "cover" /\ ~probe.motion
            top == IF probe.c = "cover"
                   THEN (baseStepsPerSec + extraStepsPerSec) * RateUnit
                   ELSE maxSps * RateUnit
        IN  /\ probe.out.speed01 = Min(mag, SpeedCap)
            /\ probe.out.speed01 >= 0 /\ probe.out.speed01 <= SpeedCap
            /\ probe.c # "fit" =>
                  /\ (probe.out.speed01 = 0 \/ gated) =>
                        probe.out.sps = baseStepsPerSec * RateUnit
                  /\ (probe.out.speed01 = SpeedCap /\ ~gated) => probe.out.sps = top
                  /\ probe.out.sps >= baseStepsPerSec * RateUnit /\ probe.out.sps <= top
            /\ \A b \in 0..MaxTilt, g \in {0, MaxTilt} :
                  Max(b, g) >= mag =>
                     stepsPerSec(probe.c, probe.motion, speed01FromTilt(b, g)) >= probe.out.sps

\* A tilt strictly between rest and the cap, the rate strictly between base and top.
C15_Witness ==
    /\ probe.fn = "speed" /\ probe.done
    /\ probe.c = "viewport"
    /\ probe.out.speed01 > 0 /\ probe.out.speed01 < SpeedCap
    /\ probe.out.sps > baseStepsPerSec * RateUnit
    /\ probe.out.sps < maxSps * RateUnit

\* C16: under the cover policy the drawn rectangle [dx, dx+drawW] x [dy, dy+drawH]
\* fully covers the surface [0,cw] x [0,ch] for every logical size, surface
\* size, zoom and edge, is flush against the surface side of the active edge and
\* centred on the other axis, dx and dy being integers.
C16_AsStated ==
    (probe.fn = "coverBlit" /\ probe.done) =>
        LET o == probe.out
            left   == o.dx * o.den
            right  == o.dx * o.den + o.drawW
            top    == o.dy * o.den
            bottom == o.dy * o.den + o.drawH
            W == probe.cw * o.den
            H == probe.ch * o.den
        IN  /\ left <= 0 /\ right >= W /\ top <= 0 /\ bottom >= H
            /\ probe.edge = "top" => top = 0
            /\ probe.edge = "bottom" => bottom = H
            /\ probe.edge = "left" => left = 0
            /\ probe.edge = "right" => right = W
            /\ probe.edge \in {"top", "bottom"} => Abs((right - W) + left) <= 2 * o.den
            /\ probe.edge \in {"left", "right"} => Abs((bottom - H) + top) <= 2 * o.den

\* C17: under fit both axes use the single scale s = min(cw/gw*zoom, ch/gh*zoom)
\* and the drawn rectangle is centred with an integer top-left corner; under
\* stretch the axes use cw/gw*zoom and ch/gh*zoom independently. For gw=10,
\* gh=20, cw=100, ch=100, zoom=1, fit gives s=5, drawW=50, drawH=100, dx=25,
\* dy=0 and stretch gives drawW=100, drawH=100.
C17_FitAndStretch ==
    (probe.fn = "fitBlit" /\ probe.done) =>
        LET o == probe.out
            unit == ZoomUnit * probe.gw * probe.gh
            golden == probe.gw = 10 /\ probe.gh = 20 /\ probe.cw = 100 /\ probe.ch = 100
        IN  /\ o.den = unit
            /\ probe.fillMode = "fit" =>
                  /\ o.drawW * probe.gh = o.drawH * probe.gw
                  /\ o.drawW * ZoomUnit <= probe.cw * probe.zn * unit
                  /\ o.drawH * ZoomUnit <= probe.ch * probe.zn * unit
                  /\ \/ o.drawW * ZoomUnit = probe.cw * probe.zn * unit
                     \/ o.drawH * ZoomUnit = probe.ch * probe.zn * unit
            /\ probe.fillMode = "stretch" =>
                  /\ o.drawW * ZoomUnit = probe.cw * probe.zn * unit
                  /\ o.drawH * ZoomUnit = probe.ch * probe.zn * unit
            /\ 2 * o.dx * unit <= probe.cw * unit - o.drawW
            /\ probe.cw * unit - o.drawW < 2 * (o.dx + 1) * unit
            /\ 2 * o.dy * unit <= probe.ch * unit - o.drawH
            /\ probe.ch * unit - o.drawH < 2 * (o.dy + 1) * unit
            /\ (golden /\ probe.fillMode = "fit") =>
                  /\ o.drawW = 50 * unit /\ o.drawH = 100 * unit
                  /\ o.drawW = 5 * probe.gw * unit
                  /\ o.dx = 25 /\ o.dy = 0
            /\ (golden /\ probe.fillMode = "stretch") =>
                  o.drawW = 100 * unit /\ o.drawH = 100 * unit

\* The example of the statement, drawn in fit mode.
C17_Witness ==
    /\ probe.fn = "fitBlit" /\ probe.done
    /\ probe.fillMode = "fit"
    /\ probe.gw = 10 /\ probe.gh = 20 /\ probe.cw = 100 /\ probe.ch = 100
    /\ probe.out.dx = 25

----------------------------------------------------------------------------
(* Properties of resets and dimensions (checked under Spec).               *)

\* resetSimulation() called twice in a row on the live engine, for every pair of
\* random draws.
doubleResets ==
    { [d1 |-> d1, d2 |-> d2,
       once  |-> resetSimulation(comp, Closure, Engine, "none", FALSE, tilt, viewport, d1),
       twice |-> resetSimulation(comp, Closure,
                     resetSimulation(comp, Closure, Engine, "none", FALSE, tilt, viewport, d1),
                     "none", FALSE, tilt, viewport, d2)] :
      d1 \in DrawsFor(comp, seedMode), d2 \in DrawsFor(comp, seedMode) }

\* The W and H of the current configuration.
configDims ==
    IF comp = "cover" THEN presetDims(worldPreset)
    ELSE IF comp = "fit" THEN fitDims
    ELSE computeDims(edgeByPrecedence, cellSize, viewport)

\* g is H rows of length W with head 0, the first row and current being seed and
\* every other row zero.
isFreshGrid(g, W, H, seed) ==
    /\ g.head = 0
    /\ Len(g.rows) = H
    /\ \A r \in 1..H : g.rows[r] = (IF r = 1 THEN seed ELSE ZeroRow(W))
    /\ g.current = seed

\* C18: resetSimulation twice in a row under the same W, H and seed mode yields
\* two buffers of the same shape (H rows of length W, head = 0); in single-seed
\* mode the two states are cell-for-cell identical; the post-reset state does
\* not depend on the state before the reset.
C18_ResetIdempotent ==
    phase = "mounted" =>
        \A r \in doubleResets :
            LET W == configDims[1]
                H == configDims[2]
                single == comp = "fit" \/ seedMode = "single"
                centre == [i \in 1..W |-> IF i = (W \div 2) + 1 THEN 1 ELSE 0]
            IN  /\ Len(r.once.grid.current) = W
                /\ Len(r.twice.grid.current) = W
                /\ isFreshGrid(r.once.grid, W, H, r.once.grid.current)
                /\ isFreshGrid(r.twice.grid, W, H, r.twice.grid.current)
                /\ r.d1 = r.d2 => r.twice.grid = r.once.grid
                /\ single =>
                      /\ r.once.grid.current = centre
                      /\ r.twice.grid = r.once.grid

\* A History that has stepped around the ring, so that a reset changes head,
\* rows and current.
C18_Witness ==
    /\ phase = "mounted"
    /\ grid.head > 0
    /\ stepsSinceReset > liveH
    /\ \E r \in doubleResets : r.once.grid # grid /\ r.twice.grid = r.once.grid

\* Dimension scenario: world presets, cell sizes, window sizes, a tilt to the
\* left and back, the manual override and frames.
NextDims ==
    \/ \E d \in DrawsFor(comp, seedMode) : Mount(d)
    \/ \E due \in {0, AccUnit}, d \in DrawsFor(comp, seedMode) : Tick(due, d)
    \/ CommitEdge
    \/ \E s \in {<< <<0>>, <<-9>> >>, << <<>>, <<>> >>} : Orientation(s)
    \/ \E m \in {"none", "left"}, d \in DrawsFor(comp, seedMode) : SetManualEdge(m, d)
    \/ \E vp \in Viewports, d \in DrawsFor(comp, seedMode) : WindowResize(vp, d)
    \/ \E p \in {"low", "med"}, d \in DrawsFor(comp, seedMode) : SetWorldPreset(p, d)
    \/ \E by \in {-1, 1}, d \in DrawsFor(comp, seedMode) : SetCellSize(by, d)
    \/ \E d \in DrawsFor(comp, seedMode) : ResetButton(d)

SpecDims == Init /\ [][NextDims]_vars

\* C19: a mismatch between the configured dimensions and the live History is
\* handled at the start of the frame before any step: in every frame in which a
\* step is applied, current has length W and rows has exactly H rows of length W
\* for that frame's configuration.
C19_NoStepOnStaleDims ==
    phase = "mounted" =>
        \A f \in nextFrames :
            f.out.info.steps > 0 =>
               LET WH == IF comp = "cover" THEN presetDims(worldPreset)
                         ELSE IF comp = "fit" THEN fitDims
                         ELSE computeDims(f.out.info.edge, cellSize, viewport)
                   g == f.out.e.grid
               IN  /\ Len(g.current) = WH[1]
                   /\ Len(g.rows) = WH[2]
                   /\ \A r \in 1..Len(g.rows) : Len(g.rows[r]) = WH[1]
                   /\ \A r \in 1..Len(f.out.e.trace) : Len(f.out.e.trace[r]) = WH[1]
                   /\ comp = "viewport" => f.out.e.dims = WH

\* The viewport component holds a History sized for another edge than the one
\* the next frame resolves, and that frame steps.
C19_Witness ==
    /\ phase = "mounted"
    /\ comp = "viewport"
    /\ \E f \in nextFrames :
          /\ f.out.info.steps > 0
          /\ dims # computeDims(f.out.info.edge, cellSize, viewport)
          /\ f.out.e.dims # dims

----------------------------------------------------------------------------
(* Sensor-off behaviour (checked under SpecEdge).                          *)

\* The next frame of the live loop after any one further orientation event, or
\* after none.
framesAfterSensor ==
    { [d |-> d,
       out |-> frame(comp, Closure, Engine, pendingEdge, acc, tl, viewport, due, d)] :
      due \in {0, AccUnit}, d \in DrawsFor(comp, seedMode),
      tl \in {tilt} \cup (IF comp = "viewport" \/ motionOn
                          THEN {tiltSample(comp, Num(s[1]), Num(s[2])) : s \in OriSamples}
                          ELSE {}) }

----------------------------------------------------------------------------
(* The frame loop and the output surface (SpecLoop).                       *)

\* The ResizeObserver stores a container of no width or height as a canvas of
\* one pixel: the surface is empty when a side is below two pixels.
surfaceEmpty(cv) == cv[1] < 2 \/ cv[2] < 2

\* The divisors the draw of a frame with outcome f divides by, at zoom
\* zn / ZoomUnit: view sizes in the cover component, logical sizes in the fit
\* component, the cell size in computeDims of the viewport component.
frameDivisors(c, cl, f, zn) ==
    IF f.info.skipped # "no" THEN {}
    ELSE LET WH == worldDims(c, cl, f.e)
             g  == logicalGrid(f.info.edge, WH[1], WH[2])
         IN  IF c = "cover"
             THEN LET b == coverBlit(f.info.edge, g[1], g[2], f.e.canvas[1], f.e.canvas[2], zn)
                  IN  {zn, b.viewW, b.viewH}
             ELSE IF c = "fit" THEN {g[1], g[2]}
             ELSE {cl.cellSize}

\* Loop scenario: frames, surface and window sizes down to nothing, renders that
\* re-create the frame loop, sensor samples and the manual override.
NextLoop ==
    \/ \E d \in DrawsFor(comp, seedMode) : Mount(d)
    \/ \E due \in {0, AccUnit}, d \in DrawsFor(comp, seedMode) : Tick(due, d)
    \/ CommitEdge
    \/ ToggleRunning
    \/ \E s \in OriSamples : Orientation(s)
    \/ \E m \in {"none", "left"}, d \in DrawsFor(comp, seedMode) : SetManualEdge(m, d)
    \/ \E sz \in SurfaceInputs : ObserveResize(sz)
    \/ \E vp \in {<<0, 0>>, <<9, 8>>}, d \in DrawsFor(comp, seedMode) : WindowResize(vp, d)
    \/ SetViewOption
    \/ \E d \in DrawsFor(comp, seedMode) : SetSprinkleProb(d)

SpecLoop == InitHist /\ [][NextLoop]_vars

\* C21 as stated: in a frame where the output surface is missing or zero-sized,
\* rasterization and blit are skipped, no division by a zero surface or view
\* dimension occurs, and the frame loop still schedules the next frame.
C21_AsStated ==
    (phase = "mounted" /\ surfaceEmpty(canvas)) =>
        /\ \E cb \in raf : cb.live
        /\ \A f \in nextFrames :
              /\ f.out.info.skipped = "surface"
              /\ \A zn \in Zooms : frameDivisors(comp, Closure, f.out, zn) = {}

\* C21, amended: the world-preset component skips a frame whose surface is
\* below two pixels on a side, before any edge change, step or draw; the other
\* two components draw every frame, the fixed-world one on a surface of at least
\* one pixel and the viewport-sized one on a surface of at least eight cells a
\* side; in every frame that draws every divisor (view size, logical size, zoom,
\* cell size) is at least 1, and every frame leaves the next one requested.
C21_SurfaceGuard ==
    phase = "mounted" =>
        /\ \E cb \in raf : cb.live
        /\ canvas[1] >= 1 /\ canvas[2] >= 1
        /\ \A f \in nextFrames :
              /\ (comp = "cover" /\ surfaceEmpty(canvas)) =>
                    /\ f.out.info.skipped = "surface"
                    /\ f.out.e = Engine /\ f.out.acc = acc /\ f.out.pend = pendingEdge
              /\ (comp # "cover" \/ ~surfaceEmpty(canvas)) => f.out.info.skipped # "surface"
              /\ comp = "viewport" =>
                    /\ f.out.e.canvas[1] >= MinGrid * cellSize
                    /\ f.out.e.canvas[2] >= MinGrid * cellSize
              /\ \A zn \in Zooms : \A v \in frameDivisors(comp, Closure, f.out, zn) : v >= 1

\* The world-preset component on a container of no size, frames having stepped
\* before: the next frame is skipped and a callback is pending.
C21_Witness ==
    /\ phase = "mounted"
    /\ comp = "cover"
    /\ canvas = <<1, 1>>
    /\ stepsSinceReset >= 1
    /\ \E cb \in raf : cb.live
    /\ \E f \in nextFrames : f.out.info.skipped = "surface" /\ f.out.e.grid = grid

\* C22 as stated: within one frame the steps due are applied before the edge is
\* re-evaluated, so a frame in which the resolved edge changes applies no step
\* to the freshly reset buffer and rasterizes a history containing only the new
\* seed row.
C22_AsStated ==
    phase = "mounted" =>
        \A f \in histFrames :
            f.out.info.setEdge =>
               LET W == Len(f.out.e.grid.current)
                   H == Len(f.out.e.grid.rows)
                   seed == buildInitRow(W, IF comp = "fit" THEN "single" ELSE seedMode, f.d)
               IN  /\ f.out.e.trace = <<seed>>
                   /\ f.out.e.grid = resetGrid(W, H, seed)
                   /\ framePicture(comp, Closure, f.out) =
                         rasterize(resetGrid(W, H, seed), W, H, f.out.info.edge)

\* C22, amended: within one frame the edge is re-evaluated before the steps due
\* are applied: a frame in which the resolved edge changes first resets the
\* History and then applies its steps to the fresh buffer, none to the old
\* history, so the frame rasterizes the new seed row followed by the rows of
\* those steps.
C22_ResetThenStep ==
    phase = "mounted" =>
        \A f \in histFrames :
            f.out.info.setEdge =>
               LET e == f.out.e
                   n == f.out.info.steps
                   W == Len(e.grid.current)
                   H == Len(e.grid.rows)
                   seed == buildInitRow(W, IF comp = "fit" THEN "single" ELSE seedMode, f.d)
                   fresh == [grid |-> resetGrid(W, H, seed), trace |-> <<seed>>]
                   stepped == runSteps(comp, fresh, lut, H, n)
               IN  /\ f.out.info.skipped = "no"
                   /\ e.resets >= 1
                   /\ n = stepsDue(comp, running, acc, f.due)[1]
                   /\ <<W, H>> = worldDims(comp, Closure, e)
                   /\ Len(e.trace) = n + 1
                   /\ e.trace[1] = seed
                   /\ \A k \in 1..n : e.trace[k + 1] = stepECA(e.trace[k], lut)
                   /\ e.grid = stepped.grid
                   /\ framePicture(comp, Closure, f.out) =
                         rasterize(stepped.grid, W, H, f.out.info.edge)

\* A History with steps behind it, and a frame that sees a new edge and has a
\* step due: the step lands on the new seed.
C22_Witness ==
    /\ phase = "mounted"
    /\ stepsSinceReset >= 2
    /\ \E f \in histFrames :
          /\ f.out.info.setEdge
          /\ f.out.info.steps = 1
          /\ Len(f.out.e.trace) = 2
          /\ f.out.e.trace[2] # f.out.e.trace[1]

\* C23: a single change of the resolved edge, by tilt or by ManualEdge, causes
\* exactly one History reset in every interleaving of the manual-edge effect, the
\* pending ActiveEdge update, the re-creation of the frame loop and frame ticks:
\* once a change has been handled (the reset done, setActiveEdge queued) and the
\* resolved edge is still that edge, no frame resets the History again.
C23_AsStated ==
    (phase = "mounted" /\ pendingEdge # "none" /\ edgeByPrecedence = pendingEdge) =>
        \A f \in nextFrames :
            /\ f.out.e.resets = 0
            /\ ~f.out.info.setEdge
            /\ f.out.e.trace[1] = trace[1]

----------------------------------------------------------------------------
(* Properties of the picture (checked under SpecLoop and SpecDraw).        *)

\* Column sx of picture pic shows row r: pixel (sx, x) is black exactly when
\* cell x of r is 1.
columnShows(pic, sx, r) ==
    \A x \in 0..(Len(r) - 1) : (r[x + 1] = 1) <=> ([sx |-> sx, sy |-> x] \in pic.black)

\* C24: when the frame's edge is left the newest row (current) is rasterized in
\* the leftmost column sx = 0, and when the edge is right in the rightmost column
\* sx = gw-1, the rasterizer passing t = H-1 for the newest row.
C24_AsStated ==
    phase = "mounted" =>
        \A f \in nextFrames :
            f.out.info.skipped = "no" =>
               LET pic == framePicture(comp, Closure, f.out)
                   cur == f.out.e.grid.current
               IN  /\ f.out.info.edge = "left" => columnShows(pic, 0, cur)
                   /\ f.out.info.edge = "right" => columnShows(pic, pic.gw - 1, cur)

\* Line sy of picture pic shows row r: pixel (x, sy) is black exactly when cell
\* x of r is 1.
lineShows(pic, sy, r) ==
    \A x \in 0..(Len(r) - 1) : (r[x + 1] = 1) <=> ([sx |-> x, sy |-> sy] \in pic.black)

\* C25: after rasterization, for every t in [0,H) and x in [0,W), the logical
\* pixel at mapToScreen(edge, t, x) is active exactly when cell x of the row at
\* time-offset H-1-t from current is 1, and every other pixel is background; the
\* current row is drawn at t = H-1, which is sy = H-1 for bottom and sy = 0 for
\* top, and rows not yet written since the last reset are blank.
C25_PictureShowsHistory ==
    phase = "mounted" =>
        \A f \in nextFrames :
            f.out.info.skipped = "no" =>
               LET pic  == framePicture(comp, Closure, f.out)
                   e    == f.out.e
                   edge == f.out.info.edge
                   W    == worldDims(comp, Closure, e)[1]
                   H    == worldDims(comp, Closure, e)[2]
                   n    == Len(e.trace) - 1
                   cells == (0..(H - 1)) \X (0..(W - 1))
                   \* the cell of the row k steps older than current, blank when
                   \* no such row was written since the reset
                   cell(k, x) == IF k <= n THEN e.trace[n - k + 1][x + 1] ELSE 0
               IN  /\ \A c \in cells :
                         (mapToScreen(edge, c[1], c[2], W, H) \in pic.black)
                            <=> (cell(H - 1 - c[1], c[2]) = 1)
                   /\ \A p \in pic.black :
                         \E c \in cells : /\ p = mapToScreen(edge, c[1], c[2], W, H)
                                          /\ cell(H - 1 - c[1], c[2]) = 1
                   /\ edge = "bottom" => lineShows(pic, H - 1, e.grid.current)
                   /\ edge = "top" => lineShows(pic, 0, e.grid.current)
                   /\ \A t \in 0..(H - 1) :
                         (H - 1 - t > n) =>
                            \A x \in 0..(W - 1) : mapToScreen(edge, t, x, W, H) \notin pic.black

\* A frame drawn from the top edge two or more steps after a reset and before
\* the ring is full: live rows and rows never written are both in the window.
C25_Witness ==
    /\ phase = "mounted"
    /\ \E f \in nextFrames :
          /\ f.out.info.skipped = "no"
          /\ f.out.info.edge = "top"
          /\ Len(f.out.e.trace) >= 3
          /\ Len(f.out.e.trace) < Len(f.out.e.grid.rows)
          /\ f.out.e.grid.current # ZeroRow(Len(f.out.e.grid.current))
          /\ framePicture(comp, Closure, f.out).black # {}

\* View scenario: the manual override to each of the four edges on worlds and
\* windows that are not square, with frames that step.
NextView ==
    \/ \E d \in DrawsFor(comp, seedMode) : Mount(d)
    \/ \E d \in DrawsFor(comp, seedMode) : Tick(AccUnit, d)
    \/ CommitEdge
    \/ \E m \in Edges \cup {"none"}, d \in DrawsFor(comp, seedMode) : SetManualEdge(m, d)
    \/ \E vp \in Viewports, d \in DrawsFor(comp, seedMode) : WindowResize(vp, d)
    \/ \E p \in {"low", "med"}, d \in DrawsFor(comp, seedMode) : SetWorldPreset(p, d)

SpecView == Init /\ [][NextView]_vars

\* C26: for each of the four edges mapToScreen is a bijection from the cells
\* [0,H) x [0,W) onto the logical grid (W x H for top and bottom, H x W for left
\* and right): every projected pixel lies inside the grid, so the out-of-bounds
\* drop never triggers, no two cells share a pixel and no pixel is left without
\* a cell, the grid dimensions matching the edge used in that frame.
C26_ProjectionIsBijection ==
    phase = "mounted" =>
        \A f \in nextFrames :
            f.out.info.skipped = "no" =>
               LET pic   == framePicture(comp, Closure, f.out)
                   edge  == f.out.info.edge
                   W     == worldDims(comp, Closure, f.out.e)[1]
                   H     == worldDims(comp, Closure, f.out.e)[2]
                   cells == (0..(H - 1)) \X (0..(W - 1))
                   image == {mapToScreen(edge, c[1], c[2], W, H) : c \in cells}
                   whole == {[sx |-> i, sy |-> j] : i \in 0..(pic.gw - 1), j \in 0..(pic.gh - 1)}
               IN  /\ edge \in Edges
                   /\ <<pic.gw, pic.gh>> = (IF edge \in {"top", "bottom"} THEN <<W, H>> ELSE <<H, W>>)
                   /\ Len(f.out.e.grid.rows) = H
                   /\ Len(f.out.e.grid.current) = W
                   /\ image = whole
                   /\ Cardinality(image) = W * H
                   /\ pic.dropped = {}
                   /\ comp = "viewport" =>
                         f.out.e.canvas = <<pic.gw * cellSize, pic.gh * cellSize>>

\* A frame drawn from the left or right edge on a world that is not square, with
\* black pixels: the logical grid is the world turned by a quarter.
C26_Witness ==
    /\ phase = "mounted"
    /\ \E f \in nextFrames :
          /\ f.out.info.skipped = "no"
          /\ f.out.info.edge \in {"left", "right"}
          /\ f.out.info.steps > 0
          /\ Len(f.out.e.grid.rows) # Len(f.out.e.grid.current)
          /\ framePicture(comp, Closure, f.out).gw = Len(f.out.e.grid.rows)
          /\ framePicture(comp, Closure, f.out).black # {}

----------------------------------------------------------------------------
(* Properties of the History's writes (checked under Spec).                *)

\* One step as the claim words it: head moves to (head + 1) mod H, the row at
\* the new head is replaced by the new state, current is set to it, every other
\* row is kept.
advanceOnce(g, l) ==
    LET h    == (g.head + 1) % Len(g.rows)
        next == stepECA(g.current, l)
    IN  [rows |-> [r \in 1..Len(g.rows) |-> IF r = h + 1 THEN next ELSE g.rows[r]],
         head |-> h,
         current |-> next]

RECURSIVE advance(_, _, _)
advance(g, l, n) == IF n <= 0 THEN g ELSE advance(advanceOnce(g, l), l, n - 1)

\* C27: one ECA step advances head to (head + 1) mod H, overwrites exactly the
\* row at the new head with the new state and sets current to it, every other
\* row being left unchanged; a row is never mutated after being written except
\* by being overwritten as the oldest entry or by a reset. So every transition
\* leaves the buffer as it was, or as a number of such steps make it, from the
\* old buffer or from a freshly reset one.
C27_StepWritesOneRow ==
    [][ phase' = "mounted" =>
          LET kept == /\ Len(trace) >= 1
                      /\ Len(trace') >= Len(trace)
                      /\ SubSeq(trace', 1, Len(trace)) = trace
                      /\ Len(grid'.rows) = Len(grid.rows)
              base == IF kept THEN grid
                      ELSE resetGrid(Len(trace'[1]), Len(grid'.rows), trace'[1])
              n    == IF kept THEN Len(trace') - Len(trace) ELSE Len(trace') - 1
          IN  /\ grid' = advance(base, lut', n)
              /\ grid'.head = (base.head + n) % Len(base.rows)
              /\ n >= 1 => grid'.current = trace'[Len(trace')]
              /\ n = 1 => \A r \in 1..Len(base.rows) :
                             r # grid'.head + 1 => grid'.rows[r] = base.rows[r]
    ]_vars

\* The ring has just wrapped: the step before overwrote the oldest entry, the
\* seed, and every other row written since the reset is still in its slot.
C27_Witness ==
    /\ phase = "mounted"
    /\ stepsSinceReset = liveH
    /\ liveH >= 3
    /\ grid.head = 0
    /\ grid.rows[1] = trace[Len(trace)]
    /\ grid.rows[1] # trace[1]
    /\ \A k \in 1..(liveH - 1) : grid.rows[k + 1] = trace[k + 1]

\* Row seed is a seed of mode m: in single mode exactly one active cell, at
\* index floor(W/2); in centerSprinkle mode the cell at floor(W/2) is active.
isSeedOf(seed, m) ==
    LET W == Len(seed)
    IN  /\ \A i \in 1..W : seed[i] \in {0, 1}
        /\ m = "single" => \A i \in 1..W : (seed[i] = 1) <=> (i - 1 = W \div 2)
        /\ m = "centerSprinkle" => seed[(W \div 2) + 1] = 1

\* C28: every reset rebuilds the History wholesale: afterwards head = 0, rows
\* has H rows of length W, rows[0] equals the seed, current equals the seed and
\* every other row is all zero. In single mode the seed has exactly one active
\* cell, at index floor(W/2); in centerSprinkle mode the cell at floor(W/2) is
\* always active.
C28_ResetRebuildsWholesale ==
    phase = "mounted" =>
        LET mode == IF comp = "fit" THEN "single" ELSE seedMode
        IN  \* the state a handler's reset has left
            /\ Len(trace) = 1 =>
                  /\ isFreshGrid(grid, worldDims(comp, Closure, Engine)[1], liveH, trace[1])
                  /\ isSeedOf(trace[1], mode)
            \* the Reset button, pressed now
            /\ \A d \in DrawsFor(comp, seedMode) :
                  LET e == resetSimulation(comp, Closure, Engine, "none", FALSE, tilt, viewport, d)
                  IN  /\ isFreshGrid(e.grid, configDims[1], configDims[2], e.grid.current)
                      /\ e.trace = <<e.grid.current>>
                      /\ isSeedOf(e.grid.current, mode)
            \* a reset inside the next frame, before its steps
            /\ \A f \in histFrames :
                  f.out.e.resets >= 1 =>
                     LET seed == f.out.e.trace[1]
                         W == worldDims(comp, Closure, f.out.e)[1]
                         H == worldDims(comp, Closure, f.out.e)[2]
                     IN  /\ Len(seed) = W
                         /\ isSeedOf(seed, mode)
                         /\ f.out.e.grid = advance(resetGrid(W, H, seed), lut, f.out.info.steps)

\* A History that has wrapped, in a mode that sprinkles, with a row of even
\* length: a reset now replaces every row.
C28_Witness ==
    /\ phase = "mounted"
    /\ seedMode = "centerSprinkle"
    /\ stepsSinceReset > liveH
    /\ Len(grid.current) % 2 = 0
    /\ \E d \in DrawsFor(comp, seedMode) :
          LET e == resetSimulation(comp, Closure, Engine, "none", FALSE, tilt, viewport, d)
          IN  /\ e.grid.head = 0 /\ grid.head # 0
              /\ e.grid.current[(Len(e.grid.current) \div 2) + 1] = 1
              /\ \A r \in 1..Len(grid.rows) : grid.rows[r] # ZeroRow(Len(grid.current))

----------------------------------------------------------------------------
(* The sensor cell (SpecSensor).                                           *)

\* Sensor scenario: orientation and motion events, the motion permission,
\* frames and the renders they queue.
NextSensor ==
    \/ \E d \in DrawsFor(comp, seedMode) : Mount(d)
    \/ \E due \in {0, AccUnit}, d \in DrawsFor(comp, seedMode) : Tick(due, d)
    \/ CommitEdge
    \/ \E s \in OriSamples : Orientation(s)
    \/ \E a \in MotionSamples : DeviceMotion(a)
    \/ \E res \in {"granted", "denied"} : SetMotion(res)

SpecSensor == InitHist /\ [][NextSensor]_vars

\* tiltRef.current after onOri / handleOri has handled an event with fields s,
\* tl being the value before: the handlers of the cover and fit components
\* return early while motion is off.
sensorWrite(c, motion, tl, s) ==
    IF c = "viewport" \/ motion THEN tiltSample(c, Num(s[1]), Num(s[2])) ELSE tl

\* stepsPerSec of a frame that reads the sample tl, in 1/RateUnit steps per second.
frameRate(c, cl, tl) ==
    IF c = "fit" THEN fitStepsPerSec * RateUnit ELSE stepsPerSec(c, cl.motionOn, tl.speed01)

\* C29: sensor events write a single latest-sample cell, last value wins:
\* however many events arrive between two frames the frame uses only the most
\* recent sample, the edge and the speed used within one frame come from the
\* same sample, and the stored edge and speed01 always equal dominantEdgeFromTilt
\* and speed01 of the stored beta and gamma, a missing beta or gamma being
\* stored as 0.
C29_LatestSampleWins ==
    phase = "mounted" =>
        /\ tilt.edge = dominantEdgeFromTilt(comp, tilt.beta, tilt.gamma, Deadzone)
        /\ comp # "fit" => tilt.speed01 = speed01FromTilt(tilt.beta, tilt.gamma)
        /\ \A s2 \in OriSamples :
              LET only   == sensorWrite(comp, motionOn, tilt, s2)
                  heard  == comp = "viewport" \/ motionOn
                  beta   == IF s2[1] = <<>> THEN 0 ELSE s2[1][1]
                  gamma  == IF s2[2] = <<>> THEN 0 ELSE s2[2][1]
                  sensed == dominantEdgeFromTilt(comp, beta, gamma, Deadzone)
              IN  \* any event before the last one leaves no mark
                  /\ \A s1 \in OriSamples :
                        sensorWrite(comp, motionOn, sensorWrite(comp, motionOn, tilt, s1), s2)
                           = only
                  /\ heard =>
                        /\ only.beta = beta /\ only.gamma = gamma
                        /\ only.edge = sensed
                        /\ comp # "fit" => only.speed01 = speed01FromTilt(beta, gamma)
                  /\ ~heard => only = tilt
                  \* the frame after it takes edge and rate from that sample
                  /\ \A due \in {0, AccUnit}, d \in DrawsFor(comp, seedMode) :
                        LET f == frame(comp, Closure, Engine, pendingEdge, acc, only,
                                       viewport, due, d)
                        IN  (heard /\ f.info.skipped # "surface") =>
                               f.info.edge =
                                  Coalesce(manualEdge,
                                           Coalesce(IF motionOn THEN sensed ELSE "none",
                                                    activeEdge))
                  /\ (heard /\ comp # "fit") =>
                        frameRate(comp, Closure, only) =
                           stepsPerSec(comp, motionOn, speed01FromTilt(beta, gamma))

\* Motion is on and the stored sample has a missing gamma: it points to the top
\* edge at a speed above rest, and the next frame turns to that edge.
C29_Witness ==
    /\ phase = "mounted"
    /\ motionOn
    /\ tilt.beta = 9 /\ tilt.gamma = 0
    /\ tilt.edge = "top"
    /\ comp # "fit" => tilt.speed01 = 9
    /\ \E f \in nextFrames : f.out.info.edge = "top" /\ f.out.info.setEdge

----------------------------------------------------------------------------
(* Teardown of the frame loop.                                             *)

\* Unmount: the cleanup of the frame-loop effect cancels the handle in rafRef;
\* a callback it does not cancel belongs to a loop that is no longer live.
Unmount ==
    /\ phase = "mounted"
    /\ phase' = "unmounted"
    /\ raf' = {[cb EXCEPT !.live = FALSE] : cb \in cancelFrame(raf, rafRef)}
    /\ UNCHANGED <<comp, rule, lut, seedMode, manualEdge, activeEdge, pendingEdge,
                   motionOn, running, worldPreset, cellSize, viewport, canvas, tilt,
                   dims, grid, acc, trace, rafRef, probe>>

NextTeardown ==
    \/ \E d \in DrawsFor(comp, seedMode) : Mount(d)
    \/ \E due \in {0, AccUnit}, d \in DrawsFor(comp, seedMode) : Tick(due, d)
    \/ CommitEdge
    \/ ToggleRunning
    \/ \E s \in OriSamples : Orientation(s)
    \/ \E m \in {"none", "left"}, d \in DrawsFor(comp, seedMode) : SetManualEdge(m, d)
    \/ Unmount

SpecTeardown == InitHist /\ [][NextTeardown]_vars

\* C30: once the frame loop is torn down, no callback of it is left to run or
\* to read the history and offscreen buffers, and however often state changes
\* re-create the loop, at most one frame callback is pending: the one whose
\* handle rafRef holds, which belongs to the live loop.
C30_TeardownLeavesNoCallback ==
    /\ Cardinality(raf) <= 1
    /\ \A cb \in raf : cb.live /\ cb.id = rafRef
    /\ phase = "mounted" <=> raf # {}

\* An unmounted component whose loop was re-created by a committed edge change
\* and ran frames before it was torn down.
C30_Witness ==
    /\ phase = "unmounted"
    /\ raf = {}
    /\ rafRef # 0
    /\ activeEdge # "none"
    /\ Len(trace) >= 3

----------------------------------------------------------------------------
(* The rasterizer's ring index on its own.                                 *)

\* Rings of up to MaxRing rows are indexed.
MaxRing == 6

\* JavaScript's %: the remainder takes the sign of the dividend.
rem(a, n) == IF a >= 0 THEN a % n ELSE -((-a) % n)

bufIdxNoWrap(head, t, H) == rem(head - (H - 1 - t), H)

\* The dividend and the value of bufIdx = (g.head - (H - 1 - t) + H) % H.
bufDividend(head, t, H) == head - (H - 1 - t) + H
bufIdx(head, t, H) == rem(head - (H - 1 - t) + H, H)

IndexProbes ==
    {[fn |-> "bufIdx", head |-> hd, t |-> t, H |-> h, done |-> FALSE, out |-> 0] :
        hd \in 0..(MaxRing - 1), t \in 0..(MaxRing - 1), h \in 1..MaxRing}

InitIndex ==
    /\ InitApp
    /\ comp = "cover"
    /\ probe \in {q \in IndexProbes : q.head < q.H /\ q.t < q.H}

CallBufIdx ==
    /\ probe.fn = "bufIdx" /\ ~probe.done
    /\ probe' = [probe EXCEPT !.out = bufIdx(probe.head, probe.t, probe.H), !.done = TRUE]
    /\ UNCHANGED AppVars

NextIndex == CallBufIdx

SpecIndex == InitIndex /\ [][NextIndex]_vars

\* C31: for every head in [0,H) and every t in [0,H), the dividend of the
\* rasterizer's index (head - (H-1-t) + H) % H is never negative, the index is
\* in [0,H), and it equals ((head - k) mod H + H) mod H for k = H-1-t, with mod
\* read as JavaScript's % or as the mathematical modulus.
C31_RingIndexInRange ==
    (probe.fn = "bufIdx" /\ probe.done) =>
        LET k == probe.H - 1 - probe.t
        IN  /\ bufDividend(probe.head, probe.t, probe.H) >= 0
            /\ probe.out \in 0..(probe.H - 1)
            /\ probe.out = rem(rem(probe.head - k, probe.H) + probe.H, probe.H)
            /\ probe.out = (((probe.head - k) % probe.H) + probe.H) % probe.H

\* The oldest row of a ring whose head is at slot 0: head - k is negative and
\* the index wraps to slot 1.
C31_Witness ==
    /\ probe.fn = "bufIdx" /\ probe.done
    /\ probe.H = 3 /\ probe.head = 0 /\ probe.t = 0
    /\ probe.out = 1

----------------------------------------------------------------------------
(* Dimensions of the viewport component under edge changes (SpecDims).     *)

\* C32: in the viewport component, for every viewport size and cell size,
\* computeDims for a left or right edge is computeDims for a top or bottom edge
\* with W and H swapped, both at least 8; after any reset the canvas measures
\* gridW*cellSize by gridH*cellSize whichever edge is active; and in every frame
\* the History has the dimensions computeDims gives for the edge of that frame.
C32_DimsFollowEdge ==
    comp = "viewport" =>
        /\ \A vp \in Viewports \cup {viewport, <<0, 0>>}, cs \in CellMin..MaxCellSize :
              LET v == computeDims("bottom", cs, vp)
                  h == computeDims("left", cs, vp)
              IN  /\ computeDims("top", cs, vp) = v
                  /\ computeDims("right", cs, vp) = h
                  /\ h = <<v[2], v[1]>>
                  /\ v[1] >= MinGrid /\ v[2] >= MinGrid
        /\ phase = "mounted" =>
              LET g == computeDims("bottom", cellSize, viewport)
                  surface == <<g[1] * cellSize, g[2] * cellSize>>
              IN  /\ canvas = surface
                  /\ \A f \in nextFrames :
                        LET WH == computeDims(f.out.info.edge, cellSize, viewport)
                        IN  /\ f.out.e.canvas = surface
                            /\ f.out.e.dims = WH
                            /\ Len(f.out.e.grid.rows) = WH[2]
                            /\ Len(f.out.e.grid.current) = WH[1]
                            /\ \A i \in 1..WH[2] : Len(f.out.e.grid.rows[i]) = WH[1]

\* A frame under the left edge on a non-square grid at cell size 2: the History
\* is gridH wide and gridW deep while the canvas keeps gridW*2 by gridH*2.
C32_Witness ==
    /\ comp = "viewport"
    /\ phase = "mounted"
    /\ cellSize = 2
    /\ computeDims("bottom", cellSize, viewport)[1] # computeDims("bottom", cellSize, viewport)[2]
    /\ \E f \in nextFrames :
          /\ f.out.info.edge = "left"
          /\ f.out.e.resets > 0
          /\ f.out.e.dims = computeDims("left", cellSize, viewport)
          /\ f.out.e.dims # computeDims("bottom", cellSize, viewport)
          /\ f.out.e.canvas = canvas

====
